---- MODULE Spec2Model ----
(***************************************************************************)
(* Market-analysis pipeline: run_market_analysis drives four stage nodes   *)
(* (discover_competitors, build_feature_matrix, generate_strategy,         *)
(* create_visualizations) over one state record.  Python dicts are         *)
(* functions with a string (or name) domain, lists are sequences, None is  *)
(* the empty option <<>> where a function returns Optional.  Free text     *)
(* that the code inspects (titles, names, URLs) is a sequence of word      *)
(* tokens; text the code only copies is a TLA+ string.                     *)
(***************************************************************************)
EXTENDS Integers, Sequences, FiniteSets, TLC

VARIABLES
  entry,                \* the function the caller invoked
  pc,                   \* position of the next step
  state,                \* MarketAnalysisState threaded through the graph
  result,               \* return value of an agent method called directly
  invoked,              \* stage nodes entered so far, in order
  raised,               \* stage nodes whose agent call raised
  queries,              \* queries sent to search.invoke, in order
  failures,             \* providers that failed during a pipeline run
  blocked_seen,         \* kinds of query that returned a hit of BlockedHits
  platform_idx,         \* discover_competitors: index of the platform loop
  competitors,          \* discover_competitors: local list
  enriched_competitors, \* _enrich_with_rag: local list
  strategy,             \* generate_strategy: keys evaluated so far
  sub_idx,              \* generate_strategy: next sub-analysis
  startup_idea,         \* the argument of the call
  args,                 \* the other arguments of an agent method called directly
  replies               \* generate_strategy called directly: the llm.invoke replies

vars == <<entry, pc, state, result, invoked, raised, queries, failures, blocked_seen,
          platform_idx, competitors, enriched_competitors, strategy, sub_idx,
          startup_idea, args, replies>>

(* ------------------------------ bounds --------------------------------- *)

\* most hits one search call returns
MaxHits == 2
\* most competitors one run collects
MaxCompetitors == 2

(* --------------------------- generic helpers --------------------------- *)

EmptyDict == [k \in {} |-> 0]

\* dict[key] = value (insert or overwrite)
DictSet(d, key, value) == [k \in (DOMAIN d) \cup {key} |-> IF k = key THEN value ELSE d[k]]

\* dict.get(key, default)
DictGet(d, key, default) == IF key \in DOMAIN d THEN d[key] ELSE default

Range(s) == {s[i] : i \in 1..Len(s)}

\* sequences over S of length at most n
SeqUpTo(S, n) == UNION {[1..k -> S] : k \in 0..n}

RECURSIVE SumLen(_, _)
SumLen(ws, len) == IF ws = <<>> THEN 0 ELSE len[Head(ws)] + SumLen(Tail(ws), len)

(* ------------------------- text: words and URLs ------------------------ *)

\* len() of each word that occurs in a captured name
WordLen == [w \in {"Acme", "The", "Beta", "best", "tool", "Zo", "An", "Io"} |->
              CASE w \in {"Acme", "Beta", "best", "tool"} -> 4
                [] w = "The" -> 3
                [] OTHER -> 2]

\* len(s) of a text of words joined by single blanks
CharLen(ws) == IF ws = <<>> THEN 0 ELSE SumLen(ws, WordLen) + (Len(ws) - 1)

\* str.lower() on one word
Lower(w) ==
  CASE w = "Capterra" -> "capterra"
    [] w = "Reviews" -> "reviews"
    [] w = "The" -> "the"
    [] w = "An" -> "an"
    [] w = "Acme" -> "acme"
    [] w = "Beta" -> "beta"
    [] OTHER -> w

LowerText(ws) == [i \in 1..Len(ws) |-> Lower(ws[i])]

\* `site in url`: the substring lies inside one word of the url
WordContains(w, s) == w = s \/ <<w, s>> \in {<<"reviews", "review">>}

TextContains(ws, s) == \E i \in 1..Len(ws) : WordContains(ws[i], s)

(* ----------------------------- search hits ----------------------------- *)

\* A title or content: its words, and what re.finditer yields on it for
\* each of the six name patterns (pattern index, group(1)), computed with
\* the patterns of _extract_competitor_names.
NoText == [words |-> <<>>, captures |-> <<>>]

\* "Acme versus Beta"
TitleAcme == [words |-> <<"Acme", "versus", "Beta">>,
              captures |-> << [pattern |-> 3, group |-> <<"Acme">>] >>]

\* "The Acme versus Beta"
TitleTheAcme == [words |-> <<"The", "Acme", "versus", "Beta">>,
                 captures |-> << [pattern |-> 3, group |-> <<"The", "Acme">>] >>]

\* "Beta guide"
TitleBeta == [words |-> <<"Beta", "guide">>,
              captures |-> << [pattern |-> 4, group |-> <<"Beta">>] >>]

\* "Acme home page"
TitlePlain == [words |-> <<"Acme", "home", "page">>, captures |-> <<>>]

\* "An Io guide": the capture survives the first length test, its cleaned
\* form does not
ContentIo == [words |-> <<"An", "Io", "guide">>,
              captures |-> << [pattern |-> 4, group |-> <<"An", "Io">>] >>]

\* "best Beta tool versus Acme": two patterns capture different names
ContentTwo == [words |-> <<"best", "Beta", "tool", "versus", "Acme">>,
               captures |-> << [pattern |-> 1, group |-> <<"Beta">>],
                               [pattern |-> 3, group |-> <<"best", "Beta", "tool">>] >>]

HitAcme == [title |-> TitleAcme, content |-> NoText, url |-> <<>>]

HitTheAcme == [title |-> TitleTheAcme, content |-> NoText, url |-> <<>>]

HitBetaCapterra == [title |-> TitleBeta, content |-> NoText,
                    url |-> <<"https", "www", "Capterra", "com", "beta">>]

HitBetaReviews == [title |-> TitleBeta, content |-> NoText,
                   url |-> <<"https", "g2", "com", "Reviews", "beta">>]

HitPlain == [title |-> TitlePlain, content |-> ContentIo, url |-> <<"https", "acme", "com">>]

HitTwo == [title |-> NoText, content |-> ContentTwo, url |-> <<"https", "beta", "io">>]

Hits == {HitAcme, HitTheAcme, HitBetaCapterra, HitBetaReviews, HitPlain, HitTwo}

BlockedHits == {HitBetaCapterra, HitBetaReviews}

\* what search.invoke does: raise, or return a list of hits
SearchOutcomes == {[kind |-> "raise", results |-> <<>>]} \cup
                  {[kind |-> "ok", results |-> r] : r \in SeqUpTo(Hits, MaxHits)}

\* the provider of a whole pipeline run is kept to one hit per call
PipelineSearchOutcomes == {[kind |-> "raise", results |-> <<>>],
                           [kind |-> "ok", results |-> <<>>],
                           [kind |-> "ok", results |-> <<HitAcme>>]}

(* ------------------- CompetitorDiscoveryAgent: extraction -------------- *)

\* the platforms in another order
platforms_reordered == <<"crunchbase", "product_hunt", "g2">>

platforms == <<"product_hunt", "crunchbase", "g2">>

Blocklist == <<"capterra", "softwareworld", "alternatives", "comparison", "review">>

Articles == {"the", "a", "an"}

Suffixes == {"app", "software", "system", "tool", "device"}

NA == "N/A"

\* "N/A" as a text of words
NAText == <<"N/A">>

\* matches of one pattern in a text, in the order re.finditer yields them
finditer(pattern, text) ==
  LET Of(c) == c.pattern = pattern
      found == SelectSeq(text.captures, Of)
  IN [i \in 1..Len(found) |-> found[i].group]

RECURSIVE MatchAll(_, _)
\* the names appended by `for pattern in patterns` from pattern p on
MatchAll(p, text) ==
  IF p > 6 THEN <<>>
  ELSE LET Long(n) == n # <<>> /\ CharLen(n) > 2
       IN SelectSeq(finditer(p, text), Long) \o MatchAll(p + 1, text)

\* the three re.sub calls and the whitespace join of the clean-up loop
CleanName(name) ==
  LET a == IF Len(name) >= 2 /\ Lower(name[1]) \in Articles THEN Tail(name) ELSE name
      b == IF Len(a) >= 2 /\ Lower(a[Len(a)]) \in Suffixes THEN SubSeq(a, 1, Len(a) - 1) ELSE a
  IN b

\* _extract_competitor_names: the set behind list(set(cleaned_names)); the
\* order of the returned list is the iteration order of a set of strings
extract_competitor_names(title, content) ==
  LET names == MatchAll(1, title) \o MatchAll(1, content)
      cleaned == {CleanName(names[i]) : i \in 1..Len(names)}
  IN {n \in cleaned : n # <<>> /\ CharLen(n) > 2}

\* the filter without url.lower()
URLBlocked_cased(url) == \E i \in 1..Len(Blocklist) : TextContains(url, Blocklist[i])

URLBlocked(url) == \E i \in 1..Len(Blocklist) : TextContains(LowerText(url), Blocklist[i])

Description(content) ==
  IF content.words # <<>> THEN Append(content.words, "...")
  ELSE <<"No", "description", "available">>

NewCompetitor(name, url, content, platform) ==
  [name |-> name,
   website |-> IF url # <<>> THEN url ELSE NAText,
   description |-> Description(content),
   platform |-> platform,
   features |-> <<>>,
   pricing_model |-> NA,
   target_audience |-> NA,
   usp |-> NA,
   market_share |-> NA,
   funding_status |-> NA,
   user_rating |-> NA,
   feature_categories |-> EmptyDict]

\* _extract_competitor_info: the possible return values, None being <<>>
\* and a competitor c being <<c>>; names[0] is any element of the name set
extract_competitor_info(hit, platform) ==
  IF URLBlocked(hit.url) THEN {<<>>}
  ELSE LET names == extract_competitor_names(hit.title, hit.content)
       IN IF names = {} THEN {<<>>}
          ELSE {<<NewCompetitor(n, hit.url, hit.content, platform)>> : n \in names}

RECURSIVE ProcessResults(_, _, _)
\* `for result in platform_results`: the lists the loop can leave behind
ProcessResults(comps, results, platform) ==
  IF results = <<>> THEN {comps}
  ELSE UNION {ProcessResults(comps \o c, Tail(results), platform) :
                c \in extract_competitor_info(Head(results), platform)}

(* ------------------------- generative-text replies --------------------- *)

\* A reply of llm.invoke: it raises, or returns a text of which the model
\* keeps response_text.find('{'), response_text.rfind('}') and what
\* json.loads makes of the slice between them (<<>>: JSONDecodeError).
LlmRaise == [kind |-> "raise", find |-> -1, rfind |-> -1, json |-> <<>>]

LlmNoBrace == [kind |-> "text", find |-> -1, rfind |-> -1, json |-> <<>>]

LlmOpenOnly == [kind |-> "text", find |-> 0, rfind |-> -1, json |-> <<>>]

LlmBadJson == [kind |-> "text", find |-> 3, rfind |-> 9, json |-> <<>>]

LlmJson(value) == [kind |-> "text", find |-> 3, rfind |-> 9, json |-> <<value>>]

LlmFailures == {LlmRaise, LlmNoBrace, LlmOpenOnly, LlmBadJson}

\* the find/rfind/json.loads lines every call site repeats:
\* "raise" (caught by the caller's handler), "none" (the if is skipped)
\* or "ok" with the parsed object
ExtractJson(resp) ==
  IF resp.kind = "raise" THEN [status |-> "raise", value |-> EmptyDict]
  ELSE LET start_idx == resp.find
           end_idx == resp.rfind + 1
       IN IF start_idx # -1 /\ end_idx # -1
          THEN IF end_idx > start_idx /\ resp.json # <<>>
               THEN [status |-> "ok", value |-> resp.json[1]]
               ELSE [status |-> "raise", value |-> EmptyDict]
          ELSE [status |-> "none", value |-> EmptyDict]

(* ------------------- CompetitorDiscoveryAgent: enrichment -------------- *)

TextFields == {"name", "website", "description"}

\* a JSON object inside a features list (unhashable once parsed)
DictElem == "{...}"

\* `enriched_comp[key] == "N/A"`
IsNA(key, value) ==
  CASE key \in TextFields -> value = NAText
    [] key \in {"features", "feature_categories"} -> FALSE
    [] OTHER -> value = NA

\* `value in ["N/A", [], {}]`
IsMissing(key, value) ==
  CASE key \in TextFields -> value = NAText
    [] key = "features" -> value = <<>>
    [] key = "feature_categories" -> DOMAIN value = {}
    [] OTHER -> value = NA

\* what vector_db.similarity_search returns: Documents, or dicts
Document == [isDict |-> FALSE, fields |-> EmptyDict]

SimilarDict == [isDict |-> TRUE,
                fields |-> [pricing_model |-> "Freemium", name |-> <<"Other">>, sector |-> "AI"]]

SimilarOutcomes == {[kind |-> "raise", docs |-> <<>>],
                    [kind |-> "ok", docs |-> <<>>],
                    [kind |-> "ok", docs |-> <<Document>>],
                    [kind |-> "ok", docs |-> <<Document, SimilarDict>>]}

PipelineSimilarOutcomes == {[kind |-> "raise", docs |-> <<>>],
                            [kind |-> "ok", docs |-> <<Document>>]}

\* `for key, value in similar.items()` on one similar record
MergeOne(comp, similar) ==
  IF ~similar.isDict THEN comp
  ELSE LET d == similar.fields
       IN [k \in (DOMAIN comp) \cup (DOMAIN d) |->
             IF k \in DOMAIN d /\ (k \notin DOMAIN comp \/ IsNA(k, comp[k]))
             THEN d[k] ELSE comp[k]]

RECURSIVE MergeSimilar(_, _)
MergeSimilar(comp, docs) ==
  IF docs = <<>> THEN comp ELSE MergeSimilar(MergeOne(comp, Head(docs)), Tail(docs))

FillFull == [features |-> <<"X", "Y">>, pricing_model |-> "$199/month",
             target_audience |-> "Enterprise teams", usp |-> "Fast",
             market_share |-> "35%", funding_status |-> "Series A",
             user_rating |-> "4.5", name |-> <<"Renamed">>]

FillBad == [features |-> <<"X", DictElem>>]

FillResponses == LlmFailures \cup {LlmJson(FillFull), LlmJson(FillBad)}

PipelineFillResponses == {LlmRaise, LlmNoBrace, LlmJson(FillFull)}

missing_fields(competitor) == {f \in DOMAIN competitor : IsMissing(f, competitor[f])}

\* every field of the reply written
fill_missing_info_all(competitor, resp) ==
  LET missing == missing_fields(competitor)
      parsed == ExtractJson(resp)
  IN IF missing # {} /\ parsed.status = "ok"
     THEN [f \in DOMAIN competitor |->
             IF f \in DOMAIN parsed.value THEN parsed.value[f] ELSE competitor[f]]
     ELSE competitor

\* _fill_missing_info
fill_missing_info(competitor, resp) ==
  LET missing == missing_fields(competitor)
      parsed == ExtractJson(resp)
  IN IF missing # {} /\ parsed.status = "ok"
     THEN [f \in DOMAIN competitor |->
             IF f \in missing /\ f \in DOMAIN parsed.value
             THEN parsed.value[f] ELSE competitor[f]]
     ELSE competitor

\* the handler appending a record under the name it logs
enrich_one_unknown(comp, sim, resp) ==
  IF sim.kind = "raise" THEN [comp EXCEPT !.name = <<"Unknown">>]
  ELSE fill_missing_info(MergeSimilar(comp, sim.docs), resp)

\* the try block around the similarity query alone
enrich_one_filling(comp, sim, resp) ==
  fill_missing_info(MergeSimilar(comp, sim.docs), resp)

\* one iteration of the loop of _enrich_with_rag: the element it appends
enrich_one(comp, sim, resp) ==
  IF sim.kind = "raise" THEN comp
  ELSE fill_missing_info(MergeSimilar(comp, sim.docs), resp)

(* ----------------------- FeatureMatrixBuilderAgent --------------------- *)

feature_categories == <<"Core Features", "User Experience", "Technical Capabilities",
                        "Integration Features", "Security & Privacy",
                        "Analytics & Reporting", "Mobile & Remote Access">>

CatGood == ("Core Features" :> <<"X">>) @@ ("User Experience" :> <<"Y">>)

CatBogus == ("Core Features" :> <<"X">>) @@ ("Bogus" :> <<"Y">>)

\* the reply renames feature Y to Z
CatDrift == ("Core Features" :> <<"X", "Z">>) @@ ("Security & Privacy" :> <<"X">>)

CategorizeResponses == LlmFailures \cup {LlmJson(CatGood), LlmJson(CatBogus), LlmJson(CatDrift)}

PipelineCategorizeResponses == {LlmRaise, LlmNoBrace, LlmJson(CatGood)}

\* a label of the fixed set in another case
CatCased == ("core features" :> <<"X">>) @@ ("User Experience" :> <<"Y">>)

\* the replies to _categorize_features called on its own
DirectCategorizeResponses == CategorizeResponses \cup {LlmJson(CatCased)}

\* every label of the reply taken over
categorize_features_any_label(features, resp) ==
  LET categorized == [c \in Range(feature_categories) |-> <<>>]
      parsed == ExtractJson(resp)
  IN IF parsed.status = "ok"
     THEN [c \in (DOMAIN categorized) \cup (DOMAIN parsed.value) |->
             IF c \in DOMAIN parsed.value THEN parsed.value[c] ELSE categorized[c]]
     ELSE categorized

\* the mapping built from the reply alone, without the seven empty lists
categorize_features_reply_only(features, resp) ==
  LET parsed == ExtractJson(resp)
  IN IF parsed.status = "ok"
     THEN [c \in (DOMAIN parsed.value) \cap Range(feature_categories) |-> parsed.value[c]]
     ELSE EmptyDict

\* _categorize_features; the features to categorize only enter the prompt
categorize_features(features, resp) ==
  LET categorized == [c \in Range(feature_categories) |-> <<>>]
      parsed == ExtractJson(resp)
  IN IF parsed.status = "ok"
     THEN [c \in DOMAIN categorized |->
             IF c \in DOMAIN parsed.value THEN parsed.value[c] ELSE categorized[c]]
     ELSE categorized

Has(comp, feature) == feature \in Range(DictGet(comp, "features", <<>>))

RECURSIVE NamesHaving(_, _)
\* the names appended to by_category[category][feature], in list order
NamesHaving(comps, feature) ==
  IF comps = <<>> THEN <<>>
  ELSE (IF Has(Head(comps), feature) THEN <<Head(comps).name>> ELSE <<>>)
       \o NamesHaving(Tail(comps), feature)

RECURSIVE ByCompetitor(_, _, _)
\* the second loop: one assignment per competitor, a later competitor of the
\* same name replacing the entry of an earlier one
ByCompetitor(acc, comps, categorized) ==
  IF comps = <<>> THEN acc
  ELSE LET comp == Head(comps)
           HasIt(f) == Has(comp, f)
           entry_ == [c \in DOMAIN categorized |-> SelectSeq(categorized[c], HasIt)]
       IN ByCompetitor(DictSet(acc, comp.name, entry_), Tail(comps), categorized)

\* by_category stopping at the first competitor that has the feature
generate_feature_comparison_first_only(comps, categorized) ==
  [by_category |-> [c \in DOMAIN categorized |->
                      [f \in Range(categorized[c]) |->
                         LET names == NamesHaving(comps, f)
                         IN IF names = <<>> THEN <<>> ELSE <<Head(names)>>]],
   by_competitor |-> ByCompetitor(EmptyDict, comps, categorized)]

\* _generate_feature_comparison, for competitors that all carry a name and
\* categories whose values are lists (nothing in it raises then)
generate_feature_comparison(comps, categorized) ==
  [by_category |-> [c \in DOMAIN categorized |->
                      [f \in Range(categorized[c]) |-> NamesHaving(comps, f)]],
   by_competitor |-> ByCompetitor(EmptyDict, comps, categorized)]

EmptyMatrix == [features |-> EmptyDict, pricing_comparison |-> EmptyDict,
                audience_segments |-> EmptyDict, usps |-> EmptyDict]

\* all_features.update(features) raises on an unhashable element
Unhashable(features) == DictElem \in Range(features)

RECURSIVE CollectLoop(_, _)
\* `for comp in competitors` of build_feature_matrix: the matrix it leaves
\* and whether it ran to the end
CollectLoop(matrix, comps) ==
  IF comps = <<>> THEN [matrix |-> matrix, completed |-> TRUE]
  ELSE LET comp == Head(comps)
       IN IF Unhashable(DictGet(comp, "features", <<>>)) \/ "name" \notin DOMAIN comp
          THEN [matrix |-> matrix, completed |-> FALSE]
          ELSE CollectLoop(
                 [matrix EXCEPT
                    !.pricing_comparison = DictSet(@, comp.name, DictGet(comp, "pricing_model", NA)),
                    !.audience_segments = DictSet(@, comp.name, DictGet(comp, "target_audience", NA)),
                    !.usps = DictSet(@, comp.name, DictGet(comp, "usp", NA))],
                 Tail(comps))

RECURSIVE AllFeatures(_)
AllFeatures(comps) ==
  IF comps = <<>> THEN {} ELSE Range(DictGet(Head(comps), "features", <<>>)) \cup AllFeatures(Tail(comps))

\* a failed categorization reaching the outer handler, which returns {}
build_feature_matrix_drops(comps, resp) ==
  LET loop == CollectLoop(EmptyMatrix, comps)
      categorized_features == categorize_features(AllFeatures(comps), resp)
  IN IF ~loop.completed THEN loop.matrix
     ELSE IF ExtractJson(resp).status # "ok" THEN EmptyDict
     ELSE [k \in (DOMAIN loop.matrix) \cup {"feature_comparison"} |->
             CASE k = "features" -> categorized_features
               [] k = "feature_comparison" -> generate_feature_comparison(comps, categorized_features)
               [] OTHER -> loop.matrix[k]]

\* the handler returning a fresh matrix
build_feature_matrix_restarting(comps, resp) ==
  LET loop == CollectLoop(EmptyMatrix, comps)
      categorized_features == categorize_features(AllFeatures(comps), resp)
  IN IF ~loop.completed THEN EmptyMatrix
     ELSE [k \in (DOMAIN loop.matrix) \cup {"feature_comparison"} |->
             CASE k = "features" -> categorized_features
               [] k = "feature_comparison" -> generate_feature_comparison(comps, categorized_features)
               [] OTHER -> loop.matrix[k]]

\* build_feature_matrix
build_feature_matrix(comps, resp) ==
  LET loop == CollectLoop(EmptyMatrix, comps)
      categorized_features == categorize_features(AllFeatures(comps), resp)
  IN IF ~loop.completed THEN loop.matrix
     ELSE [k \in (DOMAIN loop.matrix) \cup {"feature_comparison"} |->
             CASE k = "features" -> categorized_features
               [] k = "feature_comparison" -> generate_feature_comparison(comps, categorized_features)
               [] OTHER -> loop.matrix[k]]

(* -------------------- DifferentiationStrategistAgent ------------------- *)

\* the dict literal with two entries swapped
StrategyKeys_swapped ==
  <<"whitespace_opportunities", "innovation_areas", "niche_opportunities",
    "pricing_opportunities", "positioning_strategy", "competitive_advantages">>

StrategyKeys == <<"whitespace_opportunities", "innovation_areas", "pricing_opportunities",
                  "niche_opportunities", "positioning_strategy", "competitive_advantages">>

\* A parsed object whose items() the code walks is the sequence of its
\* (key, value) pairs in document order.
Item(key, value) == [key |-> key, value |-> value]

\* a pair whose value is a JSON number or null, where the code iterates a list
Scalar(key) == [key |-> key, value |-> <<>>, scalar |-> TRUE]

IsScalar(item) == "scalar" \in DOMAIN item

WhitespaceJson == <<Item("feature_gaps", <<"offline mode">>), Item("market_gaps", <<"clinics">>)>>

InnovationJson == <<Item("Technical Innovation", <<"revolutionary api", "faster setup">>)>>

PricingJson == <<Item("Pricing Model Innovation", <<"usage based">>)>>

NicheJson == <<Item("Underserved Segments", <<"clinics">>)>>

PositioningJson == [market_position |-> "Challenger", tagline |-> "Simple"]

AdvantagesJson == <<Item("Technical Advantages", <<"speed">>)>>

StrategyJson == <<WhitespaceJson, InnovationJson, PricingJson, NicheJson,
                  PositioningJson, AdvantagesJson>>

\* objects of the asked-for keys in which a later value is no list
WhitespaceOddJson == <<Item("feature_gaps", <<"offline mode">>), Scalar("market_gaps")>>

InnovationOddJson == <<Item("Technical Innovation", <<"faster setup">>), Scalar("Feature Innovation")>>

PricingOddJson == <<Item("Pricing Model Innovation", <<"usage based">>), Scalar("Value-Based Pricing")>>

NicheOddJson == <<Item("Underserved Segments", <<"clinics">>), Scalar("Emerging Markets")>>

PositioningOddJson == [key_differentiators |-> <<"price">>]

AdvantagesOddJson == <<Item("Technical Advantages", <<"speed">>), Scalar("Market Advantages")>>

StrategyOddJson == <<WhitespaceOddJson, InnovationOddJson, PricingOddJson, NicheOddJson,
                     PositioningOddJson, AdvantagesOddJson>>

\* the replies the sub-analysis k can get
StrategyResponses(k) == {LlmRaise, LlmNoBrace, LlmJson(StrategyJson[k])}

\* the replies of a generate_strategy called on its own
DirectStrategyResponses(k) ==
  {LlmRaise, LlmBadJson, LlmJson(StrategyJson[k]), LlmJson(StrategyOddJson[k])}

\* gaps.get(key, []) on the parsed object
ItemGet(items, key) ==
  LET Is(it) == it.key = key
      found == SelectSeq(items, Is)
  IN IF found = <<>> THEN Item(key, <<>>) ELSE found[Len(found)]

\* [{"type": t, "description": gap} for gap in gaps]
GapRecords(t, gaps) == [i \in 1..Len(gaps) |-> [type |-> t, description |-> gaps[i]]]

\* whether llm.invoke is reached by sub-analysis k: the statements before it
\* raise on an unhashable feature (k = 1) or on a competitor without a name
\* (k = 3, 4)
ReachesLlm(k, comps) ==
  CASE k = 1 -> \A i \in 1..Len(comps) : ~Unhashable(DictGet(comps[i], "features", <<>>))
    [] k \in {3, 4} -> \A i \in 1..Len(comps) : "name" \in DOMAIN comps[i]
    [] OTHER -> TRUE

\* _identify_whitespace: the three whitespace.extend calls in order; the one
\* that raises ends the function with what the calls before it appended
identify_whitespace(comps, feature_matrix, resp) ==
  LET parsed == ExtractJson(resp)
      f == ItemGet(parsed.value, "feature_gaps")
      m == ItemGet(parsed.value, "market_gaps")
      o == ItemGet(parsed.value, "opportunity_areas")
  IN IF ReachesLlm(1, comps) /\ parsed.status = "ok"
     THEN IF IsScalar(f) THEN <<>>
          ELSE GapRecords("feature_gap", f.value) \o
               (IF IsScalar(m) THEN <<>>
                ELSE GapRecords("market_gap", m.value) \o
                     (IF IsScalar(o) THEN <<>> ELSE GapRecords("opportunity", o.value)))
     ELSE <<>>

RECURSIVE CategoryRecords(_, _)
\* `for category, opps in parsed.items(): result.extend([...])`; the
\* comprehension over a value that is no list raises and the loop ends with
\* the records of the categories before it
CategoryRecords(items, field) ==
  IF items = <<>> \/ IsScalar(Head(items)) THEN <<>>
  ELSE LET category == Head(items).key
           opps == Head(items).value
       IN [i \in 1..Len(opps) |-> (field :> opps[i]) @@ [category |-> category]]
          \o CategoryRecords(Tail(items), field)

\* _identify_innovation_areas, _analyze_pricing_opportunities,
\* _identify_niche_opportunities and _identify_competitive_advantages
\* differ in their prompt and in the name of the record field
category_analysis(field, resp) ==
  LET parsed == ExtractJson(resp)
  IN IF parsed.status = "ok" THEN CategoryRecords(parsed.value, field) ELSE <<>>

DefaultPositioning == [market_position |-> "", value_proposition |-> "",
                       key_differentiators |-> <<>>, target_audience |-> "",
                       brand_positioning |-> ""]

\* the parsed object returned in place of the merged record
generate_positioning_strategy_replacing(resp) ==
  LET parsed == ExtractJson(resp)
  IN IF parsed.status = "ok" THEN parsed.value ELSE DefaultPositioning

\* _generate_positioning_strategy: positioning.update(parsed)
generate_positioning_strategy(resp) ==
  LET parsed == ExtractJson(resp)
  IN IF parsed.status = "ok"
     THEN [k \in (DOMAIN DefaultPositioning) \cup (DOMAIN parsed.value) |->
             IF k \in DOMAIN parsed.value THEN parsed.value[k] ELSE DefaultPositioning[k]]
     ELSE DefaultPositioning

\* the k-th entry of the dict literal of generate_strategy
sub_analysis(k, comps, feature_matrix, resp) ==
  CASE k = 1 -> identify_whitespace(comps, feature_matrix, resp)
    [] k = 2 -> category_analysis("opportunity", resp)
    [] k = 3 -> IF ReachesLlm(3, comps) THEN category_analysis("opportunity", resp) ELSE <<>>
    [] k = 4 -> IF ReachesLlm(4, comps) THEN category_analysis("opportunity", resp) ELSE <<>>
    [] k = 5 -> generate_positioning_strategy(resp)
    [] OTHER -> category_analysis("advantage", resp)

\* a failing sub-analysis that also empties the keys evaluated before it
strategy_entry_aborting(strat, k, comps, feature_matrix, resp) ==
  IF ~ReachesLlm(k, comps) \/ ExtractJson(resp).status # "ok"
  THEN [key \in (DOMAIN strat) \cup {StrategyKeys[k]} |->
          IF key = "positioning_strategy" THEN DefaultPositioning ELSE <<>>]
  ELSE DictSet(strat, StrategyKeys[k], sub_analysis(k, comps, feature_matrix, resp))

\* the dict literal of generate_strategy after its k-th entry is evaluated
strategy_entry(strat, k, comps, feature_matrix, resp) ==
  DictSet(strat, StrategyKeys[k], sub_analysis(k, comps, feature_matrix, resp))

(* --------------------------- VisualGapMapperAgent ---------------------- *)

\* the keywords of the two classifiers that occur in s.lower()
\* A value that is not a str where the code expects one: None, and a JSON
\* number.  re.search and str methods raise on them.
NoneValue == "None (NoneType)"

NumberValue == "35 (int)"

NonStrings == {NoneValue, NumberValue}

IsStr(v) == v \notin NonStrings

\* The characters of the texts handed to the normalizers and to the two
\* keyword tests, and of the keywords.
Chars ==
  ("N/A" :> <<"N", "/", "A">>) @@
  ("" :> <<>>) @@
  ("35%" :> <<"3", "5", "%">>) @@
  ("12.5% of users" :> <<"1", "2", ".", "5", "%", " ", "o", "f", " ", "u", "s", "e", "r", "s">>) @@
  ("about 7." :> <<"a", "b", "o", "u", "t", " ", "7", ".">>) @@
  ("$199/month" :> <<"$", "1", "9", "9", "/", "m", "o", "n", "t", "h">>) @@
  ("from $9.99" :> <<"f", "r", "o", "m", " ", "$", "9", ".", "9", "9">>) @@
  ("3 seats at $40" :> <<"3", " ", "s", "e", "a", "t", "s", " ", "a", "t", " ", "$", "4", "0">>) @@
  ("Free" :> <<"F", "r", "e", "e">>) @@
  ("Freemium" :> <<"F", "r", "e", "e", "m", "i", "u", "m">>) @@
  ("Enterprise teams" :> <<"E", "n", "t", "e", "r", "p", "r", "i", "s", "e", " ", "t", "e", "a", "m", "s">>) @@
  ("Small enterprises" :> <<"S", "m", "a", "l", "l", " ", "e", "n", "t", "e", "r", "p", "r", "i", "s", "e", "s">>) @@
  ("SMEs and startups" :> <<"S", "M", "E", "s", " ", "a", "n", "d", " ", "s", "t", "a", "r", "t", "u", "p", "s">>) @@
  ("Personal use by small teams" :> <<"P", "e", "r", "s", "o", "n", "a", "l", " ", "u", "s", "e", " ", "b", "y", " ", "s", "m", "a", "l", "l", " ", "t", "e", "a", "m", "s">>) @@
  ("Individual consumers" :> <<"I", "n", "d", "i", "v", "i", "d", "u", "a", "l", " ", "c", "o", "n", "s", "u", "m", "e", "r", "s">>) @@
  ("Cosmetics brands" :> <<"C", "o", "s", "m", "e", "t", "i", "c", "s", " ", "b", "r", "a", "n", "d", "s">>) @@
  ("Developers" :> <<"D", "e", "v", "e", "l", "o", "p", "e", "r", "s">>) @@
  ("LARGE CORPORATIONS" :> <<"L", "A", "R", "G", "E", " ", "C", "O", "R", "P", "O", "R", "A", "T", "I", "O", "N", "S">>) @@
  ("revolutionary api" :> <<"r", "e", "v", "o", "l", "u", "t", "i", "o", "n", "a", "r", "y", " ", "a", "p", "i">>) @@
  ("faster setup" :> <<"f", "a", "s", "t", "e", "r", " ", "s", "e", "t", "u", "p">>) @@
  ("faster sync" :> <<"f", "a", "s", "t", "e", "r", " ", "s", "y", "n", "c">>) @@
  ("leasing" :> <<"l", "e", "a", "s", "i", "n", "g">>) @@
  ("a major upgrade" :> <<"a", " ", "m", "a", "j", "o", "r", " ", "u", "p", "g", "r", "a", "d", "e">>) @@
  ("enterprise" :> <<"e", "n", "t", "e", "r", "p", "r", "i", "s", "e">>) @@
  ("large" :> <<"l", "a", "r", "g", "e">>) @@
  ("corporation" :> <<"c", "o", "r", "p", "o", "r", "a", "t", "i", "o", "n">>) @@
  ("small" :> <<"s", "m", "a", "l", "l">>) @@
  ("medium" :> <<"m", "e", "d", "i", "u", "m">>) @@
  ("sme" :> <<"s", "m", "e">>) @@
  ("startup" :> <<"s", "t", "a", "r", "t", "u", "p">>) @@
  ("individual" :> <<"i", "n", "d", "i", "v", "i", "d", "u", "a", "l">>) @@
  ("personal" :> <<"p", "e", "r", "s", "o", "n", "a", "l">>) @@
  ("consumer" :> <<"c", "o", "n", "s", "u", "m", "e", "r">>) @@
  ("revolutionary" :> <<"r", "e", "v", "o", "l", "u", "t", "i", "o", "n", "a", "r", "y">>) @@
  ("breakthrough" :> <<"b", "r", "e", "a", "k", "t", "h", "r", "o", "u", "g", "h">>) @@
  ("transformative" :> <<"t", "r", "a", "n", "s", "f", "o", "r", "m", "a", "t", "i", "v", "e">>) @@
  ("significant" :> <<"s", "i", "g", "n", "i", "f", "i", "c", "a", "n", "t">>) @@
  ("major" :> <<"m", "a", "j", "o", "r">>) @@
  ("substantial" :> <<"s", "u", "b", "s", "t", "a", "n", "t", "i", "a", "l">>)

DigitVal == ("0" :> 0) @@ ("1" :> 1) @@ ("2" :> 2) @@ ("3" :> 3) @@ ("4" :> 4) @@
            ("5" :> 5) @@ ("6" :> 6) @@ ("7" :> 7) @@ ("8" :> 8) @@ ("9" :> 9)

IsDigit(c) == c \in DOMAIN DigitVal

RECURSIVE IntOf(_)
\* the value of a run of decimal digits
IntOf(ds) == IF ds = <<>> THEN 0 ELSE IntOf(SubSeq(ds, 1, Len(ds) - 1)) * 10 + DigitVal[ds[Len(ds)]]

RECURSIVE Pow10(_)
Pow10(n) == IF n = 0 THEN 1 ELSE 10 * Pow10(n - 1)

\* the end of the longest run of digits of cs that starts at index a
RunEnd(cs, a) ==
  CHOOSE j \in a..Len(cs) :
    /\ \A k \in a..j : IsDigit(cs[k])
    /\ j = Len(cs) \/ ~IsDigit(cs[j + 1])

\* re.search(r'(\d+(?:\.\d+)?)', s) and float(match.group(1)): the leftmost
\* run of digits with its fraction part, as a fraction; <<>> when s holds no
\* digit.  The optional \$ of the pricing pattern lies outside the group and
\* moves no match.
FirstNumber(s) ==
  LET cs == Chars[s]
      starts == {i \in 1..Len(cs) : IsDigit(cs[i])}
  IN IF starts = {} THEN <<>>
     ELSE LET i == CHOOSE a \in starts : \A b \in starts : a <= b
              j == RunEnd(cs, i)
              hasFrac == j + 2 <= Len(cs) /\ cs[j + 1] = "." /\ IsDigit(cs[j + 2])
              e == IF hasFrac THEN RunEnd(cs, j + 2) ELSE j
              digits == SubSeq(cs, i, j) \o (IF hasFrac THEN SubSeq(cs, j + 2, e) ELSE <<>>)
          IN <<[num |-> IntOf(digits), den |-> Pow10(IF hasFrac THEN e - j - 1 ELSE 0)]>>

Zero == [num |-> 0, den |-> 1]

\* the result without the division by 100
normalize_market_share_raw(market_share) ==
  IF ~IsStr(market_share) THEN Zero
  ELSE LET m == FirstNumber(market_share)
       IN IF m # <<>> THEN m[1] ELSE Zero

\* _normalize_market_share; re.search raises TypeError on a value that is not
\* a str and the bare except returns 0.0
normalize_market_share(market_share) ==
  IF ~IsStr(market_share) THEN Zero
  ELSE LET m == FirstNumber(market_share)
       IN IF m # <<>> THEN [num |-> m[1].num, den |-> m[1].den * 100] ELSE Zero

\* the whole-number part only
normalize_pricing_truncating(pricing) ==
  IF ~IsStr(pricing) THEN Zero
  ELSE LET m == FirstNumber(pricing)
       IN IF m # <<>> THEN [num |-> m[1].num \div m[1].den, den |-> 1] ELSE Zero

\* _normalize_pricing
normalize_pricing(pricing) ==
  IF ~IsStr(pricing) THEN Zero
  ELSE LET m == FirstNumber(pricing)
       IN IF m # <<>> THEN m[1] ELSE Zero

UpperToLower ==
  ("A" :> "a") @@ ("B" :> "b") @@ ("C" :> "c") @@ ("D" :> "d") @@ ("E" :> "e") @@ ("F" :> "f") @@
  ("G" :> "g") @@ ("H" :> "h") @@ ("I" :> "i") @@ ("J" :> "j") @@ ("K" :> "k") @@ ("L" :> "l") @@
  ("M" :> "m") @@ ("N" :> "n") @@ ("O" :> "o") @@ ("P" :> "p") @@ ("Q" :> "q") @@ ("R" :> "r") @@
  ("S" :> "s") @@ ("T" :> "t") @@ ("U" :> "u") @@ ("V" :> "v") @@ ("W" :> "w") @@ ("X" :> "x") @@
  ("Y" :> "y") @@ ("Z" :> "z")

\* str.lower() on the characters of a text
LowerChars(cs) ==
  [i \in 1..Len(cs) |-> IF cs[i] \in DOMAIN UpperToLower THEN UpperToLower[cs[i]] ELSE cs[i]]

\* `word in text` on two character sequences
IsSubstring(word, text) ==
  \E i \in 1..(Len(text) - Len(word) + 1) : SubSeq(text, i, i + Len(word) - 1) = word

Keywords == {"enterprise", "large", "corporation", "small", "medium", "sme", "startup",
             "individual", "personal", "consumer", "revolutionary", "breakthrough",
             "transformative", "significant", "major", "substantial"}

\* for every text, the keywords that `word in s.lower()` finds in it
KeywordTable ==
  [s \in DOMAIN Chars |-> {w \in Keywords : IsSubstring(Chars[w], LowerChars(Chars[s]))}]

\* the keywords that `word in s.lower()` finds in s
KeywordsIn(s) == KeywordTable[s]

\* the SMB keywords tested before the Enterprise ones
categorize_audience_smb_first(audience) ==
  LET words == KeywordsIn(audience)
  IN CASE words \cap {"small", "medium", "sme", "startup"} # {} -> "SMB"
       [] words \cap {"enterprise", "large", "corporation"} # {} -> "Enterprise"
       [] words \cap {"individual", "personal", "consumer"} # {} -> "Consumer"
       [] OTHER -> "Other"

\* _categorize_audience
categorize_audience(audience) ==
  LET words == KeywordsIn(audience)
  IN CASE words \cap {"enterprise", "large", "corporation"} # {} -> "Enterprise"
       [] words \cap {"small", "medium", "sme", "startup"} # {} -> "SMB"
       [] words \cap {"individual", "personal", "consumer"} # {} -> "Consumer"
       [] OTHER -> "Other"

\* _assess_innovation_impact
assess_innovation_impact(innovation) ==
  LET words == KeywordsIn(innovation)
  IN CASE words \cap {"revolutionary", "breakthrough", "transformative"} # {} -> "High"
       [] words \cap {"significant", "major", "substantial"} # {} -> "Medium"
       [] OTHER -> "Low"

RECURSIVE Flatten(_)
Flatten(ss) == IF ss = <<>> THEN <<>> ELSE Head(ss) \o Flatten(Tail(ss))

\* the index at which a loop stops: the least of the indices on which its
\* body raises, 0 when it raises on none
FirstRaising(bad) == IF bad = {} THEN 0 ELSE CHOOSE i \in bad : \A j \in bad : i <= j

\* the elements a loop has handled when it ends: all, or those before stop
Before(xs, stop) == IF stop = 0 THEN xs ELSE SubSeq(xs, 1, stop - 1)

\* a JSON list where the code needs a hashable value
UnhashableValue == "[...] (list)"

\* `len(feature["competitors"]) < len(competitors) / 2` with <= for <
GapOf_inclusive(feature, n) ==
  LET k == Len(feature.competitors)
  IN IF k = 0
     THEN <<[feature |-> feature.name, category |-> feature.category, type |-> "complete_gap"]>>
     ELSE IF 2 * k <= n
          THEN <<[feature |-> feature.name, category |-> feature.category,
                  type |-> "partial_gap", competitors_with_feature |-> feature.competitors]>>
          ELSE <<>>

\* the gap entry of one feature record, if any
GapOf(feature, n) ==
  LET k == Len(feature.competitors)
  IN IF k = 0
     THEN <<[feature |-> feature.name, category |-> feature.category, type |-> "complete_gap"]>>
     ELSE IF 2 * k < n
          THEN <<[feature |-> feature.name, category |-> feature.category,
                  type |-> "partial_gap", competitors_with_feature |-> feature.competitors]>>
          ELSE <<>>

\* the (category, feature) pairs of feature_matrix["features"], in the order
\* of its items()
MatrixFeatures(fm) ==
  LET InFm(c) == c \in DOMAIN fm
      categories == SelectSeq(feature_categories, InFm)
      Of(c) == [i \in 1..Len(fm[c]) |-> [name |-> fm[c][i], category |-> c]]
  IN Flatten([j \in 1..Len(categories) |-> Of(categories[j])])

\* _create_feature_gap_map.  feature_matrix["features"] raises KeyError on a
\* matrix without that key, before anything is appended; comp["name"] raises
\* KeyError on a competitor without a name that has a feature of the matrix,
\* and the map then keeps its categories and features with the names
\* appended so far, and no gap.
create_feature_gap_map(comps, feature_matrix) ==
  IF "features" \notin DOMAIN feature_matrix
  THEN [type |-> "feature_gap_map", data |-> [categories |-> <<>>, features |-> <<>>, gaps |-> <<>>]]
  ELSE LET fm == feature_matrix.features
           InFm(c) == c \in DOMAIN fm
           categories == SelectSeq(feature_categories, InFm)
           pairs == MatrixFeatures(fm)
           RaisesAt(comp) == /\ "name" \notin DOMAIN comp
                             /\ \E j \in 1..Len(pairs) : Has(comp, pairs[j].name)
           stop == FirstRaising({i \in 1..Len(comps) : RaisesAt(comps[i])})
           features == [j \in 1..Len(pairs) |->
                          [name |-> pairs[j].name, category |-> pairs[j].category,
                           competitors |-> NamesHaving(Before(comps, stop), pairs[j].name)]]
           gaps == IF stop # 0 THEN <<>>
                   ELSE Flatten([j \in 1..Len(features) |-> GapOf(features[j], Len(comps))])
       IN [type |-> "feature_gap_map",
           data |-> [categories |-> categories, features |-> features, gaps |-> gaps]]

\* process_opportunity: <<>> is None
process_opportunity(opp, source_type) ==
  LET description == IF DictGet(opp, "description", "") # "" THEN opp.description
                     ELSE DictGet(opp, "opportunity", "")
  IN IF description = "" THEN <<>>
     ELSE <<[type |-> DictGet(opp, "type", source_type),
             description |-> description,
             category |-> DictGet(opp, "category", "Uncategorized")]>>

ProcessAll(opps, source_type) ==
  Flatten([i \in 1..Len(opps) |-> process_opportunity(opps[i], source_type)])

\* _create_market_opportunity_map; categories is list(set(...)), kept here
\* as the set, its order being that of a set of strings.  set() raises on an
\* unhashable category and the handler empties both lists.
create_market_opportunity_map(strat) ==
  LET opportunities == ProcessAll(DictGet(strat, "whitespace_opportunities", <<>>), "whitespace")
                       \o ProcessAll(DictGet(strat, "innovation_areas", <<>>), "innovation")
                       \o ProcessAll(DictGet(strat, "niche_opportunities", <<>>), "niche")
      raises == \E i \in 1..Len(opportunities) : opportunities[i].category = UnhashableValue
  IN [type |-> "market_opportunity_map",
      data |-> IF raises THEN [opportunities |-> <<>>, categories |-> {}]
               ELSE [opportunities |-> opportunities,
                     categories |-> {opportunities[i].category : i \in 1..Len(opportunities)}]]

\* the records the three loops of the Day 7 _create_market_opportunity_map
\* append; <<>> for an entry on which the dict literal raises KeyError
Day7Record(opp, source) ==
  IF source = "whitespace"
  THEN IF {"type", "description"} \subseteq DOMAIN opp
       THEN <<[type |-> opp.type, description |-> opp.description, category |-> "whitespace"]>>
       ELSE <<>>
  ELSE IF {"opportunity", "category"} \subseteq DOMAIN opp
       THEN <<[type |-> source, description |-> opp.opportunity, category |-> opp.category]>>
       ELSE <<>>

\* _create_market_opportunity_map of the Day 7 agent: it indexes the entries
\* directly, and its handler leaves the map as the exception found it, with
\* the records appended so far and categories never assigned
create_market_opportunity_map_day7(strat) ==
  LET Of(key, source) ==
        LET opps == DictGet(strat, key, <<>>)
        IN [i \in 1..Len(opps) |-> Day7Record(opps[i], source)]
      all == Of("whitespace_opportunities", "whitespace") \o Of("innovation_areas", "innovation")
             \o Of("niche_opportunities", "niche")
      stop == FirstRaising({i \in 1..Len(all) : all[i] = <<>>})
      opportunities == Flatten(Before(all, stop))
      unhashable == \E i \in 1..Len(opportunities) : opportunities[i].category = UnhashableValue
  IN [type |-> "market_opportunity_map",
      data |-> [opportunities |-> opportunities,
                categories |-> IF stop # 0 \/ unhashable THEN {}
                               ELSE {opportunities[i].category : i \in 1..Len(opportunities)}]]

\* the competitor on which the loop of _create_competitive_landscape raises:
\* comp["name"] on a dict without a name, audience.lower() on a
\* target_audience that is not a str
LandscapeRaisesAt(comp) ==
  \/ "name" \notin DOMAIN comp
  \/ ~IsStr(DictGet(comp, "target_audience", NA))

\* _create_competitive_landscape: the entries appended before the loop ended
create_competitive_landscape(comps) ==
  LET kept == Before(comps, FirstRaising({i \in 1..Len(comps) : LandscapeRaisesAt(comps[i])}))
  IN [type |-> "competitive_landscape",
      data |-> [competitors |->
                  [i \in 1..Len(kept) |->
                     [name |-> kept[i].name,
                      position |->
                        [market_share |-> normalize_market_share(DictGet(kept[i], "market_share", NA)),
                         feature_richness |-> Len(DictGet(kept[i], "features", <<>>)),
                         pricing |-> normalize_pricing(DictGet(kept[i], "pricing_model", NA)),
                         target_audience |-> categorize_audience(DictGet(kept[i], "target_audience", NA))],
                      metadata |->
                        [website |-> DictGet(kept[i], "website", NAText),
                         description |-> DictGet(kept[i], "description", NAText),
                         usp |-> DictGet(kept[i], "usp", NA)]]],
                dimensions |-> <<"market_share", "feature_richness", "pricing", "target_audience">>]]

\* opp["category"] or opp["opportunity"] raises KeyError
RadarRaisesAt(opp) == "category" \notin DOMAIN opp \/ "opportunity" \notin DOMAIN opp

\* _create_innovation_radar: the innovations appended before the loop ended;
\* categories is assigned after the loop, unless the loop or set() raised
create_innovation_radar(strat) ==
  LET all == DictGet(strat, "innovation_areas", <<>>)
      stop == FirstRaising({i \in 1..Len(all) : RadarRaisesAt(all[i])})
      areas == Before(all, stop)
      innovations == [i \in 1..Len(areas) |->
                        [category |-> areas[i].category,
                         description |-> areas[i].opportunity,
                         impact |-> assess_innovation_impact(areas[i].opportunity)]]
      unhashable == \E i \in 1..Len(innovations) : innovations[i].category = UnhashableValue
  IN [type |-> "innovation_radar",
      data |-> [categories |-> IF stop # 0 \/ unhashable THEN {}
                               ELSE {innovations[i].category : i \in 1..Len(innovations)},
                innovations |-> innovations]]

\* the landscape built only for a strategy that has innovation areas
generate_visualizations_coupled(comps, feature_matrix, strat) ==
  [feature_gap_map |-> create_feature_gap_map(comps, feature_matrix),
   market_opportunity_map |-> create_market_opportunity_map(strat),
   competitive_landscape |->
     create_competitive_landscape(IF "innovation_areas" \in DOMAIN strat THEN comps ELSE <<>>),
   innovation_radar |-> create_innovation_radar(strat)]

\* generate_visualizations
generate_visualizations(comps, feature_matrix, strat) ==
  [feature_gap_map |-> create_feature_gap_map(comps, feature_matrix),
   market_opportunity_map |-> create_market_opportunity_map(strat),
   competitive_landscape |-> create_competitive_landscape(comps),
   innovation_radar |-> create_innovation_radar(strat)]

(* ------------------------- market_analysis_graph ----------------------- *)

Ideas == {"AI customer service platform"}

Nodes == <<"discover_competitors", "build_feature_matrix", "generate_strategy",
           "create_visualizations">>

END == "__end__"

\* the initial_state of run_market_analysis
InitialState(idea) ==
  [startup_idea |-> idea, competitors |-> <<>>, feature_matrix |-> EmptyDict,
   strategy |-> EmptyDict, visualizations |-> EmptyDict, error |-> ""]

\* the edges with build_feature_matrix left out of the chain
Edge_skipping(n) ==
  CASE n = "discover_competitors" -> "generate_strategy"
    [] n = "build_feature_matrix" -> "generate_strategy"
    [] n = "generate_strategy" -> "create_visualizations"
    [] OTHER -> END

\* add_edge / set_finish_point: the node that runs after node n
Edge(n) ==
  CASE n = "discover_competitors" -> "build_feature_matrix"
    [] n = "build_feature_matrix" -> "generate_strategy"
    [] n = "generate_strategy" -> "create_visualizations"
    [] OTHER -> END

\* the first step of each node, and the end of the run
FirstStep(n) ==
  CASE n = "discover_competitors" -> "search"
    [] n = "build_feature_matrix" -> "matrix"
    [] n = "generate_strategy" -> "strategy"
    [] n = "create_visualizations" -> "viz"
    [] OTHER -> "done"

\* A stage call: the value the agent method returned, or raised when an
\* exception left the method (one no handler inside the agent caught).
Returned(value) == [raised |-> FALSE, value |-> value]

Raised == [raised |-> TRUE, value |-> <<>>]

\* node discover_competitors
node_discover_competitors(st, call) ==
  IF call.raised THEN [st EXCEPT !.error = "Error discovering competitors"]
  ELSE [st EXCEPT !.competitors = call.value]

\* a node that clears the error when its call returns
node_build_feature_matrix_clearing(st, call) ==
  IF call.raised THEN [st EXCEPT !.error = "Error building feature matrix"]
  ELSE [st EXCEPT !.feature_matrix = call.value, !.error = ""]

\* node build_feature_matrix
node_build_feature_matrix(st, call) ==
  IF call.raised THEN [st EXCEPT !.error = "Error building feature matrix"]
  ELSE [st EXCEPT !.feature_matrix = call.value]

\* the handler returning a new dict instead of {**state, "error": ...}
node_generate_strategy_fresh(st, call) ==
  IF call.raised
  THEN [InitialState(st.startup_idea) EXCEPT !.error = "Error generating strategy"]
  ELSE [st EXCEPT !.strategy = call.value]

\* node generate_strategy
node_generate_strategy(st, call) ==
  IF call.raised THEN [st EXCEPT !.error = "Error generating strategy"]
  ELSE [st EXCEPT !.strategy = call.value]

\* node create_visualizations
node_create_visualizations(st, call) ==
  IF call.raised THEN [st EXCEPT !.error = "Error creating visualizations"]
  ELSE [st EXCEPT !.visualizations = call.value]

Pipeline == entry = "run_market_analysis"

\* competitor records handed to an agent method called on its own
CompAcme == NewCompetitor(<<"Acme">>, <<>>, NoText, "g2")

\* a features list holding a JSON object
CompUnhashable == [CompAcme EXCEPT !.features = <<"X", DictElem>>]

\* a dict without the key "name"
CompNameless == [features |-> <<"X">>, pricing_model |-> "Free"]

\* a competitor none of whose fields is "N/A", [] or {}
CompResolved ==
  [CompAcme EXCEPT !.website = <<"https", "acme", "com">>, !.features = <<"X">>,
                   !.pricing_model = "Free", !.target_audience = "Enterprise teams",
                   !.usp = "Fast", !.market_share = "35%", !.funding_status = "Series A",
                   !.user_rating = "4.5", !.feature_categories = ("Core Features" :> <<"X">>)]

\* the lists handed to _enrich_with_rag called on its own
EnrichCompetitors == {<<>>, <<CompResolved>>, <<CompAcme, CompResolved>>}

StrategyCompetitors == {<<>>, <<CompAcme>>, <<CompUnhashable>>, <<CompNameless>>}

\* the competitors and feature_matrix arguments of generate_strategy
StrategyArgs ==
  IF Pipeline THEN [competitors |-> state.competitors, feature_matrix |-> state.feature_matrix]
  ELSE args

\* four competitors that have three, two, one and none of the features W, X, Y, Z
CompA == [name |-> <<"A">>, features |-> <<"X", "Y", "Z">>, market_share |-> "35%",
          pricing_model |-> "$199/month", target_audience |-> "Enterprise teams"]

CompB == [name |-> <<"B">>, features |-> <<"Y", "Z">>, pricing_model |-> "Free"]

CompC == [name |-> <<"C">>, features |-> <<"Z">>]

CompD == [name |-> <<"D">>, features |-> <<>>]

\* a target_audience that is JSON null
CompNoAudience == [name |-> <<"E">>, features |-> <<"Y">>, target_audience |-> NoneValue]

VizCompetitors ==
  {<<>>, <<CompA>>, <<CompA, CompB>>, <<CompA, CompB, CompC>>, <<CompA, CompB, CompC, CompD>>,
   <<CompA, CompNameless, CompB>>, <<CompA, CompNoAudience, CompB>>, <<CompUnhashable>>}

\* feature matrices: no key at all, no category, and the features W..Z
GapMatrix ==
  [EmptyMatrix EXCEPT !.features = ("Core Features" :> <<"W", "X">>) @@
                                   ("Integration Features" :> <<"Y", "Z">>)]

VizMatrices == {EmptyDict, EmptyMatrix, GapMatrix}

\* strategies: a dict without keys, one as generate_strategy builds it, one
\* whose second innovation area lacks "opportunity", and one whose category
\* is a JSON list
GoodStrategy ==
  [whitespace_opportunities |-> <<[type |-> "feature_gap", description |-> "offline mode",
                                   category |-> "Feature"]>>,
   innovation_areas |-> <<[category |-> "Feature Innovation", opportunity |-> "revolutionary api"],
                          [category |-> "Technical Innovation", opportunity |-> "faster sync"]>>,
   niche_opportunities |-> <<[category |-> "Vertical Markets", opportunity |-> "clinics"]>>]

PartialStrategy ==
  [innovation_areas |-> <<[category |-> "Feature Innovation", opportunity |-> "revolutionary api"],
                          [category |-> "Technical Innovation"],
                          [category |-> "Business Model Innovation", opportunity |-> "leasing"]>>]

UnhashableStrategy ==
  [innovation_areas |-> <<[category |-> "Feature Innovation", opportunity |-> "faster sync"],
                          [category |-> UnhashableValue, opportunity |-> "leasing"]>>]

VizStrategies == {EmptyDict, GoodStrategy, PartialStrategy, UnhashableStrategy}

\* entries without a category, without any description, with an empty
\* description, and two of the same category
MixedStrategy ==
  [whitespace_opportunities |-> <<[type |-> "market_gap", description |-> "", opportunity |-> "clinics"]>>,
   innovation_areas |-> <<[category |-> "Feature Innovation", opportunity |-> "faster sync"],
                          [opportunity |-> "leasing"],
                          [category |-> "Feature Innovation", opportunity |-> "faster setup"]>>,
   niche_opportunities |-> <<[category |-> "Vertical Markets"]>>]

\* the graph runtime after node n returned: it follows the edge of n
Advance(n) ==
  /\ pc' = FirstStep(Edge(n))
  /\ invoked' = IF Edge(n) = END THEN invoked ELSE Append(invoked, Edge(n))

Locals == <<platform_idx, competitors, enriched_competitors, strategy, sub_idx>>

\* the provider failures of a pipeline run, kept for the run's record
Note(kinds) == failures' = IF Pipeline THEN failures \cup kinds ELSE failures

\* the record of the queries that returned a hit with a blocklisted URL
Seen(kind, o) ==
  blocked_seen' = IF Range(o.results) \cap BlockedHits # {} THEN blocked_seen \cup {kind}
                  ELSE blocked_seen

\* a reply from which the call site gets no object
LlmFailed(resp) == IF ExtractJson(resp).status # "ok" THEN {"llm"} ELSE {}

(* -------------------------------- actions ------------------------------ *)

Init ==
  /\ entry = "none"
  /\ pc = "idle"
  /\ state = EmptyDict
  /\ result = <<>>
  /\ invoked = <<>>
  /\ raised = {}
  /\ queries = <<>>
  /\ failures = {}
  /\ blocked_seen = {}
  /\ platform_idx = 1
  /\ competitors = <<>>
  /\ enriched_competitors = <<>>
  /\ strategy = EmptyDict
  /\ sub_idx = 1
  /\ startup_idea = ""
  /\ args = <<>>
  /\ replies = <<>>

\* run_market_analysis up to graph.invoke entering the entry point
run_market_analysis ==
  /\ pc = "idle"
  /\ \E idea \in Ideas :
       /\ startup_idea' = idea
       /\ state' = InitialState(idea)
  /\ entry' = "run_market_analysis"
  /\ invoked' = <<Nodes[1]>>
  /\ pc' = FirstStep(Nodes[1])
  /\ UNCHANGED <<result, raised, queries, failures, blocked_seen, Locals, args, replies>>

\* CompetitorDiscoveryAgent.discover_competitors called on its own
call_discover_competitors ==
  /\ pc = "idle"
  /\ \E idea \in Ideas : startup_idea' = idea
  /\ entry' = "discover_competitors"
  /\ pc' = "search"
  /\ UNCHANGED <<state, result, invoked, raised, queries, failures, blocked_seen, Locals,
                  args, replies>>

\* one iteration of `for platform, base_url in self.platforms.items()`
search_platform ==
  /\ pc = "search"
  /\ \E o \in IF Pipeline THEN PipelineSearchOutcomes ELSE SearchOutcomes :
       LET platform == platforms[platform_idx]
       IN /\ queries' = Append(queries, [kind |-> "platform", idea |-> startup_idea,
                                          platform |-> platform])
          /\ Seen("platform", o)
          /\ IF o.kind = "raise"
             THEN /\ competitors' = competitors
                  /\ Note({"search"})
             ELSE /\ competitors' \in ProcessResults(competitors, o.results, platform)
                  /\ Len(competitors') <= MaxCompetitors
                  /\ Note({})
  /\ platform_idx' = platform_idx + 1
  /\ pc' = IF platform_idx < Len(platforms) THEN "search"
            ELSE IF competitors' = <<>> THEN "fallback" ELSE "enrich"
  /\ UNCHANGED <<entry, state, result, invoked, raised, enriched_competitors,
                  strategy, sub_idx, startup_idea, args, replies>>

\* the broader search under `if not competitors`
search_fallback ==
  /\ pc = "fallback"
  /\ \E o \in IF Pipeline THEN PipelineSearchOutcomes ELSE SearchOutcomes :
       /\ queries' = Append(queries, [kind |-> "broader", idea |-> startup_idea,
                                       platform |-> "general"])
       /\ Seen("broader", o)
       /\ IF o.kind = "raise"
          THEN /\ competitors' = competitors
               /\ Note({"search"})
          ELSE /\ competitors' \in ProcessResults(competitors, o.results, "general")
               /\ Len(competitors') <= MaxCompetitors
               /\ Note({})
  /\ pc' = "enrich"
  /\ UNCHANGED <<entry, state, result, invoked, raised, platform_idx,
                  enriched_competitors, strategy, sub_idx, startup_idea, args, replies>>

\* CompetitorDiscoveryAgent._enrich_with_rag called on its own
call_enrich_with_rag ==
  /\ pc = "idle"
  /\ \E idea \in Ideas : startup_idea' = idea
  /\ \E comps \in EnrichCompetitors : competitors' = comps
  /\ entry' = "enrich_with_rag"
  /\ pc' = "enrich"
  /\ UNCHANGED <<state, result, invoked, raised, queries, failures, blocked_seen, platform_idx,
                  enriched_competitors, strategy, sub_idx, args, replies>>

\* one iteration of `for comp in competitors` of _enrich_with_rag; a call of
\* _enrich_with_rag on its own keeps the outcomes of its similarity queries
\* in args and the replies of the LLM in replies
enrich_competitor ==
  /\ pc = "enrich"
  /\ Len(enriched_competitors) < Len(competitors)
  /\ \E sim \in IF Pipeline THEN PipelineSimilarOutcomes ELSE SimilarOutcomes,
         resp \in IF Pipeline THEN PipelineFillResponses ELSE FillResponses :
       LET comp == competitors[Len(enriched_competitors) + 1]
           called == sim.kind # "raise" /\ missing_fields(MergeSimilar(comp, sim.docs)) # {}
       IN /\ enriched_competitors' = Append(enriched_competitors, enrich_one(comp, sim, resp))
          /\ Note(IF sim.kind = "raise" THEN {"similarity"}
                  ELSE IF called THEN LlmFailed(resp) ELSE {})
          /\ replies' = IF entry = "enrich_with_rag"
                        THEN Append(replies, IF called THEN <<resp>> ELSE <<>>)
                        ELSE replies
          /\ args' = IF entry = "enrich_with_rag" THEN Append(args, sim) ELSE args
  /\ UNCHANGED <<entry, pc, state, result, invoked, raised, queries, blocked_seen,
                  platform_idx, competitors, strategy, sub_idx, startup_idea>>

\* discover_competitors returns enriched_competitors; in a pipeline run the
\* node stores it (or the error) and the graph moves on
discover_return ==
  /\ pc = "enrich"
  /\ Len(enriched_competitors) = Len(competitors)
  /\ IF Pipeline
     THEN /\ \E call \in {Returned(enriched_competitors), Raised} :
               /\ state' = node_discover_competitors(state, call)
               /\ raised' = IF call.raised THEN raised \cup {Nodes[1]} ELSE raised
          /\ Advance(Nodes[1])
          /\ result' = result
     ELSE /\ result' = enriched_competitors
          /\ pc' = "done"
          /\ UNCHANGED <<state, raised, invoked>>
  /\ UNCHANGED <<entry, queries, failures, blocked_seen, Locals, startup_idea, args, replies>>

\* FeatureMatrixBuilderAgent.build_feature_matrix called on the list that
\* discover_competitors returned
call_build_feature_matrix ==
  /\ pc = "done"
  /\ entry = "discover_competitors"
  /\ \E resp \in CategorizeResponses : result' = build_feature_matrix(result, resp)
  /\ entry' = "build_feature_matrix"
  /\ UNCHANGED <<pc, state, invoked, raised, queries, failures, blocked_seen, Locals, startup_idea,
                  args, replies>>

\* the competitor lists of build_feature_matrix followed by
\* _create_feature_gap_map
GapRunCompetitors == VizCompetitors \cup {<<CompB, CompC>>}

\* FeatureMatrixBuilderAgent.build_feature_matrix called on its own, and
\* VisualGapMapperAgent._create_feature_gap_map called on the same competitors
\* and the matrix it returned
call_create_feature_gap_map ==
  /\ pc = "idle"
  /\ \E comps \in GapRunCompetitors, resp \in CategorizeResponses :
       LET feature_matrix == build_feature_matrix(comps, resp)
       IN /\ args' = [competitors |-> comps, feature_matrix |-> feature_matrix]
          /\ result' = create_feature_gap_map(comps, feature_matrix)
  /\ entry' = "create_feature_gap_map"
  /\ pc' = "done"
  /\ UNCHANGED <<state, invoked, raised, queries, failures, blocked_seen, Locals, startup_idea,
                  replies>>

\* node build_feature_matrix: the agent call and the state it returns
build_feature_matrix_node ==
  /\ pc = "matrix"
  /\ \E resp \in PipelineCategorizeResponses :
       \E call \in {Returned(build_feature_matrix(state.competitors, resp)), Raised} :
         /\ state' = node_build_feature_matrix(state, call)
         /\ raised' = IF call.raised THEN raised \cup {Nodes[2]} ELSE raised
         /\ Note(IF CollectLoop(EmptyMatrix, state.competitors).completed
                 THEN LlmFailed(resp) ELSE {})
  /\ Advance(Nodes[2])
  /\ UNCHANGED <<entry, result, queries, blocked_seen, Locals, startup_idea, args, replies>>

\* DifferentiationStrategistAgent.generate_strategy called on its own
call_generate_strategy ==
  /\ pc = "idle"
  /\ \E idea \in Ideas : startup_idea' = idea
  /\ \E comps \in StrategyCompetitors :
       args' = [competitors |-> comps, feature_matrix |-> EmptyMatrix]
  /\ entry' = "generate_strategy"
  /\ pc' = "strategy"
  /\ UNCHANGED <<state, result, invoked, raised, queries, failures, blocked_seen, Locals,
                  replies>>

\* one entry of the dict literal of generate_strategy
strategy_sub_analysis ==
  /\ pc = "strategy"
  /\ sub_idx <= Len(StrategyKeys)
  /\ LET a == StrategyArgs
         called == ReachesLlm(sub_idx, a.competitors)
     IN \E resp \in IF ~called THEN {LlmRaise}
                    ELSE IF Pipeline THEN StrategyResponses(sub_idx)
                    ELSE DirectStrategyResponses(sub_idx) :
          /\ strategy' = strategy_entry(strategy, sub_idx, a.competitors, a.feature_matrix, resp)
          /\ Note(LlmFailed(resp))
          /\ replies' = IF Pipeline THEN replies
                        ELSE Append(replies, IF called THEN <<resp>> ELSE <<>>)
  /\ sub_idx' = sub_idx + 1
  /\ UNCHANGED <<entry, pc, state, result, invoked, raised, queries, blocked_seen,
                  platform_idx, competitors, enriched_competitors, startup_idea, args>>

\* generate_strategy called on its own returns the dict
generate_strategy_return ==
  /\ pc = "strategy"
  /\ ~Pipeline
  /\ sub_idx > Len(StrategyKeys)
  /\ result' = strategy
  /\ pc' = "done"
  /\ UNCHANGED <<entry, state, invoked, raised, queries, failures, blocked_seen, Locals,
                  startup_idea, args, replies>>

\* VisualGapMapperAgent.generate_visualizations called on its own
call_generate_visualizations ==
  /\ pc = "idle"
  /\ \E comps \in VizCompetitors, fm \in VizMatrices, strat \in VizStrategies :
       /\ args' = [competitors |-> comps, feature_matrix |-> fm, strategy |-> strat]
       /\ result' = generate_visualizations(comps, fm, strat)
  /\ entry' = "generate_visualizations"
  /\ pc' = "done"
  /\ UNCHANGED <<state, invoked, raised, queries, failures, blocked_seen, Locals, startup_idea,
                  replies>>

\* the two agents that have a _create_market_opportunity_map
MapperVersions == {"Day 7", "Day 9"}

\* VisualGapMapperAgent._create_market_opportunity_map called on its own
call_create_market_opportunity_map ==
  /\ pc = "idle"
  /\ \E version \in MapperVersions, strat \in VizStrategies \cup {MixedStrategy} :
       /\ args' = [version |-> version, strategy |-> strat]
       /\ result' = IF version = "Day 7" THEN create_market_opportunity_map_day7(strat)
                     ELSE create_market_opportunity_map(strat)
  /\ entry' = "create_market_opportunity_map"
  /\ pc' = "done"
  /\ UNCHANGED <<state, invoked, raised, queries, failures, blocked_seen, Locals, startup_idea,
                  replies>>

\* the market_share and pricing_model values handed to the normalizers
ShareInputs == {"35%", "12.5% of users", "about 7.", "N/A", "", NoneValue, NumberValue}

PricingInputs == {"$199/month", "from $9.99", "3 seats at $40", "Free", "N/A", "",
                  NoneValue, NumberValue}

\* VisualGapMapperAgent._normalize_market_share called on its own
call_normalize_market_share ==
  /\ pc = "idle"
  /\ \E v \in ShareInputs : /\ args' = [market_share |-> v]
                             /\ result' = normalize_market_share(v)
  /\ entry' = "normalize_market_share"
  /\ pc' = "done"
  /\ UNCHANGED <<state, invoked, raised, queries, failures, blocked_seen, Locals, startup_idea,
                  replies>>

\* VisualGapMapperAgent._normalize_pricing called on its own
call_normalize_pricing ==
  /\ pc = "idle"
  /\ \E v \in PricingInputs : /\ args' = [pricing |-> v]
                               /\ result' = normalize_pricing(v)
  /\ entry' = "normalize_pricing"
  /\ pc' = "done"
  /\ UNCHANGED <<state, invoked, raised, queries, failures, blocked_seen, Locals, startup_idea,
                  replies>>

\* FeatureMatrixBuilderAgent._categorize_features called on its own
call_categorize_features ==
  /\ pc = "idle"
  /\ \E features \in {{}, {"X", "Y"}}, resp \in DirectCategorizeResponses :
       /\ args' = [features |-> features, reply |-> resp]
       /\ result' = categorize_features(features, resp)
  /\ entry' = "categorize_features"
  /\ pc' = "done"
  /\ UNCHANGED <<state, invoked, raised, queries, failures, blocked_seen, Locals, startup_idea,
                  replies>>

\* the target_audience texts handed to _categorize_audience
AudienceInputs == {"Enterprise teams", "Small enterprises", "SMEs and startups",
                   "Personal use by small teams", "Individual consumers", "Cosmetics brands",
                   "Developers", "LARGE CORPORATIONS", "", "N/A"}

\* VisualGapMapperAgent._categorize_audience called on its own
call_categorize_audience ==
  /\ pc = "idle"
  /\ \E v \in AudienceInputs : /\ args' = [audience |-> v]
                                /\ result' = categorize_audience(v)
  /\ entry' = "categorize_audience"
  /\ pc' = "done"
  /\ UNCHANGED <<state, invoked, raised, queries, failures, blocked_seen, Locals, startup_idea,
                  replies>>

\* node generate_strategy: the state it returns
generate_strategy_node ==
  /\ pc = "strategy"
  /\ Pipeline
  /\ sub_idx > Len(StrategyKeys)
  /\ \E call \in {Returned(strategy), Raised} :
       /\ state' = node_generate_strategy(state, call)
       /\ raised' = IF call.raised THEN raised \cup {Nodes[3]} ELSE raised
  /\ Advance(Nodes[3])
  /\ UNCHANGED <<entry, result, queries, failures, blocked_seen, Locals, startup_idea,
                  args, replies>>

\* node create_visualizations: the agent call and the state it returns
create_visualizations_node ==
  /\ pc = "viz"
  /\ \E call \in {Returned(generate_visualizations(state.competitors, state.feature_matrix,
                                                     state.strategy)), Raised} :
       /\ state' = node_create_visualizations(state, call)
       /\ raised' = IF call.raised THEN raised \cup {Nodes[4]} ELSE raised
  /\ Advance(Nodes[4])
  /\ UNCHANGED <<entry, result, queries, failures, blocked_seen, Locals, startup_idea,
                  args, replies>>

Next ==
  \/ run_market_analysis
  \/ call_discover_competitors
  \/ search_platform
  \/ search_fallback
  \/ call_enrich_with_rag
  \/ enrich_competitor
  \/ discover_return
  \/ call_build_feature_matrix
  \/ call_create_feature_gap_map
  \/ build_feature_matrix_node
  \/ call_generate_strategy
  \/ strategy_sub_analysis
  \/ generate_strategy_return
  \/ generate_strategy_node
  \/ call_categorize_features
  \/ call_categorize_audience
  \/ call_generate_visualizations
  \/ call_create_market_opportunity_map
  \/ call_normalize_market_share
  \/ call_normalize_pricing
  \/ create_visualizations_node

Spec == Init /\ [][Next]_vars

(* -------------------------------- claims ------------------------------- *)

Done == pc = "done"

\* discover_competitors has returned its list (enriched_competitors)
DiscoveryReturned ==
  /\ pc \notin {"idle", "search", "fallback", "enrich"}
  /\ Nodes[1] \notin raised

\* the matrices build_feature_matrix has returned, with their arguments
MatrixRuns ==
  (IF Pipeline /\ DOMAIN state.feature_matrix # {}
   THEN {[comps |-> state.competitors, matrix |-> state.feature_matrix]} ELSE {})
  \cup
  (IF entry = "build_feature_matrix"
   THEN {[comps |-> enriched_competitors, matrix |-> result]} ELSE {})

SevenCategories == {"Core Features", "User Experience", "Technical Capabilities",
                    "Integration Features", "Security & Privacy",
                    "Analytics & Reporting", "Mobile & Remote Access"}

SixStrategyKeys == {"whitespace_opportunities", "innovation_areas", "pricing_opportunities",
                    "niche_opportunities", "positioning_strategy", "competitive_advantages"}

FourMaps == {"feature_gap_map", "market_opportunity_map", "competitive_landscape",
             "innovation_radar"}

\* C1: a stage node whose call raised is the last node invoked in its run
\* (no stage after it is invoked).
C1_FailFast ==
  Pipeline => \A i \in 1..Len(invoked) : invoked[i] \in raised => i = Len(invoked)

\* the field a node owns, by the step the run is at
NodeField(p) ==
  CASE p \in {"search", "fallback", "enrich"} -> "competitors"
    [] p = "matrix" -> "feature_matrix"
    [] p = "strategy" -> "strategy"
    [] OTHER -> "visualizations"

\* C2: every step of a run leaves each state field other than the running
\* node's own output field and error as it was, on the success path and on
\* the exception path, and adds or removes no field.
C2_AppendOnly ==
  [][Pipeline =>
       /\ DOMAIN state' = DOMAIN state
       /\ \A k \in DOMAIN state :
            k \notin {NodeField(pc), "error"} => state'[k] = state[k]]_vars

\* a run in which generate_strategy raised after discovery and the matrix
\* builder had written their fields, and create_visualizations then wrote its own
C2_Witness ==
  /\ Pipeline /\ Done
  /\ raised = {"generate_strategy"}
  /\ state.competitors # <<>>
  /\ DOMAIN state.feature_matrix # {}
  /\ DOMAIN state.visualizations # {}

\* the node a step belongs to
StepNode(p) ==
  CASE p \in {"search", "fallback", "enrich"} -> "discover_competitors"
    [] p = "matrix" -> "build_feature_matrix"
    [] p = "strategy" -> "generate_strategy"
    [] OTHER -> "create_visualizations"

\* C3: the nodes invoked so far are an initial part of the chain
\* discover_competitors, build_feature_matrix, generate_strategy,
\* create_visualizations (each at most once, in that order), the step being
\* executed belongs to the node invoked last, and while the first node runs
\* the state is the fresh one: every field but startup_idea empty.
C3_StageOrder ==
  Pipeline =>
    /\ Len(invoked) \in 1..Len(Nodes)
    /\ \A i \in 1..Len(invoked) : invoked[i] = Nodes[i]
    /\ ~Done => StepNode(pc) = invoked[Len(invoked)]
    /\ Len(invoked) = 1 =>
         /\ state.competitors = <<>>
         /\ DOMAIN state.feature_matrix = {}
         /\ DOMAIN state.strategy = {}
         /\ DOMAIN state.visualizations = {}
         /\ state.error = ""
         /\ state.startup_idea = startup_idea

\* a finished run that went through all four nodes
C3_Witness == Pipeline /\ Done /\ invoked = Nodes /\ raised = {}

\* C4: a finished run in which no stage call raised has error empty and
\* all four outputs written, whatever provider calls failed inside.
C4_SubStepFailuresContained ==
  (Pipeline /\ Done /\ raised = {}) =>
    /\ state.error = ""
    /\ state.competitors = enriched_competitors
    /\ {"features", "pricing_comparison", "audience_segments", "usps"}
         \subseteq DOMAIN state.feature_matrix
    /\ DOMAIN state.strategy = SixStrategyKeys
    /\ DOMAIN state.visualizations = FourMaps

\* a finished run without error in which a search call, a similarity query
\* and a generative-text call failed
C4_Witness ==
  /\ Pipeline /\ Done /\ raised = {}
  /\ failures = {"search", "similarity", "llm"}
  /\ state.error = ""

\* C5: a finished run whose discovery returned no competitor (and in which
\* no stage call raised) has error empty, the matrix in its empty-default
\* shape, the six strategy keys and the four maps.
C5_EmptyDiscovery ==
  (Pipeline /\ Done /\ raised = {} /\ state.competitors = <<>>) =>
    /\ state.error = ""
    /\ DOMAIN state.feature_matrix.features = SevenCategories
    /\ DOMAIN state.feature_matrix.pricing_comparison = {}
    /\ DOMAIN state.feature_matrix.audience_segments = {}
    /\ DOMAIN state.feature_matrix.usps = {}
    /\ DOMAIN state.strategy = SixStrategyKeys
    /\ DOMAIN state.visualizations = FourMaps

\* a finished run in which the three platform queries and the broader
\* query all came back without a competitor
C5_Witness ==
  /\ Pipeline /\ Done /\ raised = {}
  /\ Len(queries) = 4
  /\ state.competitors = <<>>

\* C6: the list discover_competitors returns holds no two competitors of
\* the same name.
C6_Dedup ==
  DiscoveryReturned =>
    \A i, j \in 1..Len(enriched_competitors) :
      i # j => enriched_competitors[i].name # enriched_competitors[j].name

\* C7: no competitor, from a platform query or from the broader query, comes
\* from a hit whose URL holds a blocklisted substring (website is the URL of
\* the hit the competitor was extracted from).
C7_Blocklist ==
  \A i \in 1..Len(competitors) : competitors[i].website \notin {h.url : h \in BlockedHits}

\* discovery returned after a platform query and the broader query had each
\* returned a blocklisted hit
C7_Witness ==
  /\ entry = "discover_competitors" /\ Done
  /\ blocked_seen = {"platform", "broader"}

SentinelFields == {"pricing_model", "target_audience", "usp", "market_share",
                   "funding_status", "user_rating"}

\* C8: in the list discover_competitors returns no competitor has "N/A" in
\* pricing_model, target_audience, usp, market_share, funding_status or
\* user_rating.
C8_NoSentinel ==
  DiscoveryReturned =>
    \A i \in 1..Len(enriched_competitors) : \A f \in SentinelFields :
      enriched_competitors[i][f] # NA

\* C9: the features mapping of every matrix build_feature_matrix returns
\* has exactly the seven fixed categories as keys.
C9_SevenCategories ==
  \A r \in MatrixRuns : DOMAIN r.matrix.features = SevenCategories

FeatureNames == {"X", "Y", "Z"}

InByCategory(fc, name, c, f) ==
  /\ c \in DOMAIN fc.by_category
  /\ f \in DOMAIN fc.by_category[c]
  /\ name \in Range(fc.by_category[c][f])

InByCompetitor(fc, name, c, f) ==
  /\ name \in DOMAIN fc.by_competitor
  /\ c \in DOMAIN fc.by_competitor[name]
  /\ f \in Range(fc.by_competitor[name][c])

\* C10: in every matrix build_feature_matrix returns, a competitor name is
\* listed under by_category[c][f] exactly when f is listed under
\* by_competitor[name][c], also when two competitors share a name.
C10_Projections ==
  \A r \in MatrixRuns :
    "feature_comparison" \in DOMAIN r.matrix =>
      \A i \in 1..Len(r.comps), c \in SevenCategories, f \in FeatureNames :
        InByCategory(r.matrix.feature_comparison, r.comps[i].name, c, f)
        <=> InByCompetitor(r.matrix.feature_comparison, r.comps[i].name, c, f)

\* generate_strategy, called on its own, has returned
StrategyReturned == entry = "generate_strategy" /\ Done

ZeroPositioning == [market_position |-> "", value_proposition |-> "",
                    key_differentiators |-> <<>>, target_audience |-> "",
                    brand_positioning |-> ""]

\* the reply sub-analysis k worked on (a raising call when it asked for none)
ReplyOf(k) == IF replies[k] = <<>> THEN LlmRaise ELSE replies[k][1]

\* sub-analysis k got no object: the provider raised, or the reply held no
\* parseable JSON, or a statement before the call raised
SubFailed(k) == replies[k] = <<>> \/ ExtractJson(ReplyOf(k)).status # "ok"

\* C11: generate_strategy returns the six keys; a sub-analysis that gets no
\* object (provider failure, malformed JSON) leaves the empty default under
\* its own key, and the value under every key is what that sub-analysis
\* yields from its own reply alone, whatever the other five got.
C11_StrategyIsolation ==
  StrategyReturned =>
    /\ DOMAIN result = SixStrategyKeys
    /\ \A k \in 1..6 :
         /\ SubFailed(k) =>
              result[StrategyKeys[k]] = IF k = 5 THEN ZeroPositioning ELSE <<>>
         /\ result[StrategyKeys[k]] =
              sub_analysis(k, args.competitors, args.feature_matrix, ReplyOf(k))

\* a returned strategy whose innovation reply was malformed JSON while the
\* other five sub-analyses all got their object
C11_Witness ==
  /\ StrategyReturned
  /\ replies[2] = <<LlmBadJson>>
  /\ \A k \in {1, 3, 4, 5, 6} : ~SubFailed(k)
  /\ result["whitespace_opportunities"] # <<>>
  /\ result["competitive_advantages"] # <<>>
  /\ result["innovation_areas"] = <<>>

\* an exception occurred inside sub-analysis k: it got no object, or it
\* iterated a value of the object that is no list
SubRaised(k) ==
  \/ replies[k] = <<>>
  \/ ExtractJson(ReplyOf(k)).status = "raise"
  \/ /\ ExtractJson(ReplyOf(k)).status = "ok"
     /\ k # 5
     /\ LET v == ExtractJson(ReplyOf(k)).value
        IN \E i \in 1..Len(v) :
             /\ IsScalar(v[i])
             /\ k = 1 => v[i].key \in {"feature_gaps", "market_gaps", "opportunity_areas"}

\* C12: a sub-analysis in which an exception occurred returns its empty
\* default (no record built before the exception).
C12_EmptyOnException ==
  StrategyReturned =>
    \A k \in 1..6 :
      SubRaised(k) => result[StrategyKeys[k]] = IF k = 5 THEN ZeroPositioning ELSE <<>>

VizReturned == entry = "generate_visualizations" /\ Done

\* the keys of the data dict of each map
DataKeys ==
  [feature_gap_map |-> {"categories", "features", "gaps"},
   market_opportunity_map |-> {"opportunities", "categories"},
   competitive_landscape |-> {"competitors", "dimensions"},
   innovation_radar |-> {"categories", "innovations"}]

\* C13: generate_visualizations returns, for every input, a dict with exactly
\* the four map keys, each holding its type tag and its data lists; and each
\* map is the one any other value of the arguments its builder does not read
\* gives, so that a builder that failed changed none of the other three.
C13_MapIsolation ==
  VizReturned =>
    /\ DOMAIN result = FourMaps
    /\ \A m \in FourMaps : /\ DOMAIN result[m] = {"type", "data"}
                            /\ result[m].type = m
                            /\ DOMAIN result[m].data = DataKeys[m]
    /\ \A comps \in VizCompetitors, fm \in VizMatrices, strat \in VizStrategies :
         LET other == generate_visualizations(comps, fm, strat)
         IN /\ (comps = args.competitors /\ fm = args.feature_matrix)
                 => other.feature_gap_map = result.feature_gap_map
            /\ comps = args.competitors
                 => other.competitive_landscape = result.competitive_landscape
            /\ strat = args.strategy
                 => /\ other.market_opportunity_map = result.market_opportunity_map
                    /\ other.innovation_radar = result.innovation_radar

\* the radar builder raised on the second innovation area and the landscape
\* builder on the second competitor, the feature gap map is whole
C13_Witness ==
  /\ VizReturned
  /\ args.strategy = PartialStrategy
  /\ args.competitors = <<CompA, CompNoAudience, CompB>>
  /\ args.feature_matrix = GapMatrix
  /\ Len(result.feature_gap_map.data.gaps) = 2
  /\ Len(result.competitive_landscape.data.competitors) = 1
  /\ Len(result.innovation_radar.data.innovations) = 1
  /\ Len(result.market_opportunity_map.data.opportunities) = 2

\* the sub-map builders that raised on the arguments
GapMapRaised ==
  \/ "features" \notin DOMAIN args.feature_matrix
  \/ \E i \in 1..Len(args.competitors) :
       /\ "name" \notin DOMAIN args.competitors[i]
       /\ \E c \in DOMAIN args.feature_matrix.features :
            \E j \in 1..Len(args.feature_matrix.features[c]) :
              Has(args.competitors[i], args.feature_matrix.features[c][j])

LandscapeRaised == \E i \in 1..Len(args.competitors) : LandscapeRaisesAt(args.competitors[i])

RadarRaised ==
  LET areas == DictGet(args.strategy, "innovation_areas", <<>>)
  IN \E i \in 1..Len(areas) : RadarRaisesAt(areas[i]) \/ areas[i].category = UnhashableValue

OpportunityMapRaised ==
  LET areas == DictGet(args.strategy, "innovation_areas", <<>>)
  IN \E i \in 1..Len(areas) :
       /\ "opportunity" \in DOMAIN areas[i]
       /\ DictGet(areas[i], "category", "") = UnhashableValue

\* C14: a sub-map whose builder raised is the zero-valued default: its data
\* lists are empty and hold no entry accumulated before the exception.
C14_DefaultOnException ==
  VizReturned =>
    /\ GapMapRaised =>
         result.feature_gap_map.data = [categories |-> <<>>, features |-> <<>>, gaps |-> <<>>]
    /\ OpportunityMapRaised =>
         result.market_opportunity_map.data = [opportunities |-> <<>>, categories |-> {}]
    /\ LandscapeRaised => result.competitive_landscape.data.competitors = <<>>
    /\ RadarRaised =>
         result.innovation_radar.data = [categories |-> {}, innovations |-> <<>>]

\* the number of competitors whose features contain the feature
CountHaving(comps, f) == Cardinality({i \in 1..Len(comps) : Has(comps[i], f)})

\* the types of the gap entries of one (category, feature) pair
GapTypes(c, f) ==
  LET gaps == result.feature_gap_map.data.gaps
  IN {gaps[i].type : i \in {j \in 1..Len(gaps) : gaps[j].category = c /\ gaps[j].feature = f}}

\* C15: when the feature-gap builder ran through, every (category, feature)
\* entry of feature_matrix.features that k of the n competitors have has a
\* complete_gap entry iff k = 0, a partial_gap entry iff k > 0 and 2k < n,
\* and no gap entry otherwise.
C15_GapClassification ==
  (VizReturned /\ ~GapMapRaised) =>
    LET fm == args.feature_matrix.features
        n == Len(args.competitors)
    IN \A c \in DOMAIN fm : \A j \in 1..Len(fm[c]) :
         LET k == CountHaving(args.competitors, fm[c][j])
         IN GapTypes(c, fm[c][j]) = IF k = 0 THEN {"complete_gap"}
                                    ELSE IF 2 * k < n THEN {"partial_gap"}
                                    ELSE {}

\* n = 4 and k = 0, 1, 2, 3 for W, X, Y, Z
C15_Witness ==
  /\ VizReturned
  /\ args.competitors = <<CompA, CompB, CompC, CompD>>
  /\ args.feature_matrix = GapMatrix
  /\ GapTypes("Core Features", "W") = {"complete_gap"}
  /\ GapTypes("Core Features", "X") = {"partial_gap"}
  /\ GapTypes("Integration Features", "Y") = {}
  /\ GapTypes("Integration Features", "Z") = {}

\* two fractions are the same number
SameNumber(x, num, den) == x.num * den = num * x.den

\* C16: _normalize_market_share returns the first number of the text divided
\* by 100, and 0.0 for a text without a number and for a value that is not a
\* string.
C16_MarketShare ==
  (entry = "normalize_market_share" /\ Done) =>
    CASE args.market_share = "35%" -> SameNumber(result, 35, 100)
      [] args.market_share = "12.5% of users" -> SameNumber(result, 125, 1000)
      [] args.market_share = "about 7." -> SameNumber(result, 7, 100)
      [] OTHER -> SameNumber(result, 0, 1)

C16_Witness ==
  /\ entry = "normalize_market_share" /\ Done
  /\ args.market_share = "12.5% of users"
  /\ result = [num |-> 125, den |-> 1000]

\* C17: _normalize_pricing returns the first number of the text, with or
\* without a dollar sign before it, and 0.0 for a text without a number and
\* for a value that is not a string.
C17_Pricing ==
  (entry = "normalize_pricing" /\ Done) =>
    CASE args.pricing = "$199/month" -> SameNumber(result, 199, 1)
      [] args.pricing = "from $9.99" -> SameNumber(result, 999, 100)
      [] args.pricing = "3 seats at $40" -> SameNumber(result, 3, 1)
      [] OTHER -> SameNumber(result, 0, 1)

C17_Witness ==
  /\ entry = "normalize_pricing" /\ Done
  /\ args.pricing = "from $9.99"
  /\ result = [num |-> 999, den |-> 100]

IsPrefix(xs, ys) == Len(xs) <= Len(ys) /\ SubSeq(ys, 1, Len(xs)) = xs

\* C18: no step of discover_competitors loses a competitor: the list of
\* extracted competitors and the list of enriched ones only grow at the end,
\* whether the query or the enrichment of the step failed or not; the i-th
\* enriched record is the i-th extracted competitor, with its name and every
\* key it had; and the call returns the enriched list, one record for each
\* extracted competitor.
C18_NoCompetitorLost ==
  [][/\ IsPrefix(competitors, competitors')
     /\ IsPrefix(enriched_competitors, enriched_competitors')
     /\ Len(enriched_competitors') <= Len(competitors')
     /\ \A i \in 1..Len(enriched_competitors') :
          /\ DOMAIN competitors'[i] \subseteq DOMAIN enriched_competitors'[i]
          /\ enriched_competitors'[i].name = competitors'[i].name
     /\ (pc = "enrich" /\ pc' # "enrich") =>
          /\ Len(enriched_competitors') = Len(competitors')
          /\ ~Pipeline => result' = enriched_competitors'
          /\ (Pipeline /\ Nodes[1] \notin raised') =>
               state'.competitors = enriched_competitors'
    ]_vars

\* a run in which a search query and a similarity query failed and whose
\* discovery still returned the competitors of the queries that succeeded
C18_Witness ==
  /\ Pipeline /\ DiscoveryReturned
  /\ {"search", "similarity"} \subseteq failures
  /\ Len(state.competitors) = MaxCompetitors
  /\ state.competitors = competitors

\* the index of the first competitor on which the collection loop fails,
\* past the end when there is none
FirstMalformed(comps) ==
  LET bad == {i \in 1..Len(comps) :
                "name" \notin DOMAIN comps[i] \/ DictElem \in Range(DictGet(comps[i], "features", <<>>))}
  IN IF bad = {} THEN Len(comps) + 1 ELSE CHOOSE i \in bad : \A j \in bad : i <= j

\* C19: every matrix build_feature_matrix returns has the keys features,
\* pricing_comparison, audience_segments and usps, and holds the pricing,
\* audience and usp entry of each competitor that came before the first
\* malformed one.
C19_PartialMatrix ==
  \A r \in MatrixRuns :
    /\ {"features", "pricing_comparison", "audience_segments", "usps"} \subseteq DOMAIN r.matrix
    /\ \A i \in 1..(FirstMalformed(r.comps) - 1) :
         LET name == r.comps[i].name
             Written(field) == {DictGet(r.comps[j], field, NA) :
                                  j \in {h \in 1..(FirstMalformed(r.comps) - 1) : r.comps[h].name = name}}
         IN /\ name \in DOMAIN r.matrix.pricing_comparison
            /\ r.matrix.pricing_comparison[name] \in Written("pricing_model")
            /\ name \in DOMAIN r.matrix.audience_segments
            /\ r.matrix.audience_segments[name] \in Written("target_audience")
            /\ name \in DOMAIN r.matrix.usps
            /\ r.matrix.usps[name] \in Written("usp")

\* the collection loop failed on the second competitor and the entries of
\* the first are in the matrix returned
C19_Witness ==
  /\ entry = "build_feature_matrix"
  /\ Len(enriched_competitors) = 2
  /\ FirstMalformed(enriched_competitors) = 2
  /\ DOMAIN result.pricing_comparison = {enriched_competitors[1].name}
  /\ DOMAIN result.features = {}

\* the platform of the i-th query
PlatformOrder == <<"product_hunt", "crunchbase", "g2">>

\* the platform queries of discover_competitors are over
SearchOver == entry \in {"run_market_analysis", "discover_competitors", "build_feature_matrix"}
              /\ pc \notin {"idle", "search"}

\* C20: the queries issued are one per platform, in the order product_hunt,
\* crunchbase, g2, then at most one broader query on the idea; and once the
\* platform queries are over the broader query is (or is about to be) issued
\* exactly when no competitor came from a platform query.
C20_QueryProtocol ==
  /\ Len(queries) <= 4
  /\ \A i \in 1..Len(queries) :
       queries[i] = IF i <= 3
                    THEN [kind |-> "platform", idea |-> startup_idea, platform |-> PlatformOrder[i]]
                    ELSE [kind |-> "broader", idea |-> startup_idea, platform |-> "general"]
  /\ SearchOver =>
       /\ Len(queries) >= 3
       /\ (Len(queries) = 4 \/ pc = "fallback")
            <=> \A i \in 1..Len(competitors) : competitors[i].platform = "general"

\* every platform query failed or found nothing, and the broader query
\* found the competitors returned
C20_Witness ==
  /\ Pipeline /\ DiscoveryReturned
  /\ Len(queries) = 4
  /\ "search" \in failures
  /\ state.competitors # <<>>

\* a field value that is the sentinel "N/A", an empty list or an empty mapping
Unresolved(field, value) ==
  IF field \in {"features", "feature_categories"} THEN DOMAIN value = {}
  ELSE IF field \in {"name", "website", "description"} THEN value = <<"N/A">>
  ELSE value = "N/A"

\* C21: every field of a competitor that held a resolved value before its
\* enrichment, its name included, holds the same value after it; and
\* _enrich_with_rag invokes the LLM at most once for a competitor, and not at
\* all for one without an unresolved field (the similar records of the model
\* add none).
C21_EnrichmentFrame ==
  /\ \A i \in 1..Len(enriched_competitors) :
       \A f \in DOMAIN competitors[i] :
         ~Unresolved(f, competitors[i][f]) =>
           /\ f \in DOMAIN enriched_competitors[i]
           /\ enriched_competitors[i][f] = competitors[i][f]
  /\ entry = "enrich_with_rag" =>
       /\ Len(replies) = Len(enriched_competitors)
       /\ \A i \in 1..Len(replies) :
            /\ Len(replies[i]) <= 1
            /\ (\A f \in DOMAIN competitors[i] : ~Unresolved(f, competitors[i][f]))
                 => replies[i] = <<>>

\* the LLM was asked about the first competitor and replied with every
\* field, name included, and was not asked about the second
C21_Witness ==
  /\ entry = "enrich_with_rag" /\ Done
  /\ competitors = <<CompAcme, CompResolved>>
  /\ replies = << <<LlmJson(FillFull)>>, <<>> >>
  /\ result[1].pricing_model = "$199/month"
  /\ result[1].name = <<"Acme">>
  /\ result[2] = CompResolved

\* the name the priority order gives a hit: the first of its cleaned names,
\* title before content, patterns in list order
FirstName(hit) ==
  LET names == MatchAll(1, hit.title) \o MatchAll(1, hit.content)
      Kept(n) == n # <<>> /\ CharLen(n) > 2
      cleaned == SelectSeq([i \in 1..Len(names) |-> CleanName(names[i])], Kept)
  IN Head(cleaned)

\* the hits a competitor record can have been extracted from
HitsOf(comp) ==
  {hit \in Hits : /\ comp.website = IF hit.url # <<>> THEN hit.url ELSE <<"N/A">>
                  /\ comp.description = Description(hit.content)
                  /\ extract_competitor_names(hit.title, hit.content) # {}}

\* C22: every competitor extracted from a search hit bears the name that the
\* first matching pattern of the hit gives, title before content.
C22_NamePriority ==
  entry \in {"run_market_analysis", "discover_competitors", "build_feature_matrix"} =>
    \A i \in 1..Len(competitors) :
      \E hit \in HitsOf(competitors[i]) : competitors[i].name = FirstName(hit)

\* the object of the reply to _categorize_features, empty when there is none
CategorizeReply ==
  IF args.reply.kind = "text" /\ args.reply.find # -1 /\ args.reply.json # <<>>
  THEN args.reply.json[1] ELSE [c \in {} |-> <<>>]

\* C23: after _categorize_features each of the seven categories holds the
\* list the reply gives under that exact label, or the empty list when the
\* reply has no such label; and a feature the reply lists only under other
\* labels is in no category.
C23_CategoryOverwrite ==
  (entry = "categorize_features" /\ Done) =>
    /\ DOMAIN result = SevenCategories
    /\ \A c \in SevenCategories :
         result[c] = IF c \in DOMAIN CategorizeReply THEN CategorizeReply[c] ELSE <<>>
    /\ \A l \in DOMAIN CategorizeReply \ SevenCategories :
         \A f \in Range(CategorizeReply[l]) :
           (\A c \in SevenCategories \cap DOMAIN CategorizeReply : f \notin Range(CategorizeReply[c]))
             => \A c \in DOMAIN result : f \notin Range(result[c])

\* the reply {"Core Features": ["X"], "Bogus": ["Y"]}
C23_Witness ==
  /\ entry = "categorize_features" /\ Done
  /\ DOMAIN CategorizeReply = {"Core Features", "Bogus"}
  /\ result["Core Features"] = <<"X">>
  /\ \A c \in SevenCategories \ {"Core Features"} : result[c] = <<>>

\* C24: _categorize_audience gives the first bucket, in the order Enterprise,
\* SMB, Consumer, one of whose keywords the lower-cased text contains, and
\* Other when it contains none.
C24_AudienceBucket ==
  (entry = "categorize_audience" /\ Done) =>
    result = CASE args.audience \in {"Enterprise teams", "Small enterprises", "LARGE CORPORATIONS"}
                    -> "Enterprise"
               [] args.audience \in {"SMEs and startups", "Personal use by small teams",
                                      "Cosmetics brands"} -> "SMB"
               [] args.audience = "Individual consumers" -> "Consumer"
               [] OTHER -> "Other"

\* a text with an SMB and an Enterprise keyword
C24_Witness ==
  /\ entry = "categorize_audience" /\ Done
  /\ args.audience = "Small enterprises"
  /\ result = "Enterprise"

\* the description of a source entry: its description, or else its
\* opportunity field, "" when it has neither
SourceDescription(opp) ==
  IF "description" \in DOMAIN opp /\ opp.description # "" THEN opp.description
  ELSE IF "opportunity" \in DOMAIN opp THEN opp.opportunity
  ELSE ""

\* the source entries that have a description, in the order of the map
KeptSources ==
  LET Described(opp) == SourceDescription(opp) # ""
  IN SelectSeq(DictGet(args.strategy, "whitespace_opportunities", <<>>)
               \o DictGet(args.strategy, "innovation_areas", <<>>)
               \o DictGet(args.strategy, "niche_opportunities", <<>>), Described)

\* C25: every record of the opportunity map has the keys type, description
\* and category and a non-empty description; unless a category is
\* unhashable the records are those of the source entries that have a
\* description or an opportunity field, the others being dropped, each with
\* that description and its category, "Uncategorized" when it has none; and
\* data.categories is the set of the categories of the records.
C25_OpportunityMap ==
  (entry = "create_market_opportunity_map" /\ Done) =>
    LET opps == result.data.opportunities
    IN /\ \A i \in 1..Len(opps) : /\ DOMAIN opps[i] = {"type", "description", "category"}
                                   /\ opps[i].description # ""
       /\ result.data.categories = {opps[i].category : i \in 1..Len(opps)}
       /\ (\A i \in 1..Len(KeptSources) :
              DictGet(KeptSources[i], "category", "") # UnhashableValue) =>
            /\ Len(opps) = Len(KeptSources)
            /\ \A i \in 1..Len(opps) :
                 /\ opps[i].description = SourceDescription(KeptSources[i])
                 /\ opps[i].category = DictGet(KeptSources[i], "category", "Uncategorized")

\* the object parsed from the reply to the positioning prompt, empty when
\* the call or the parse failed
PositioningReply ==
  IF replies[5] # <<>> /\ replies[5][1].kind = "text" /\ replies[5][1].json # <<>>
  THEN replies[5][1].json[1] ELSE [k \in {} |-> ""]

\* C26: the positioning record always has the five keys; a key of the parsed
\* reply holds the value of the reply, every other key its zero value, and
\* after a provider or parse failure the record is the all-zero default.
C26_PositioningMerge ==
  StrategyReturned =>
    LET p == result.positioning_strategy
    IN /\ DOMAIN p = (DOMAIN ZeroPositioning) \cup (DOMAIN PositioningReply)
       /\ DOMAIN ZeroPositioning = {"market_position", "value_proposition", "key_differentiators",
                                    "target_audience", "brand_positioning"}
       /\ \A key \in DOMAIN p :
            p[key] = IF key \in DOMAIN PositioningReply THEN PositioningReply[key]
                     ELSE ZeroPositioning[key]

\* the reply gave market_position and a key outside the five
C26_Witness ==
  /\ StrategyReturned
  /\ DOMAIN PositioningReply = {"market_position", "tagline"}
  /\ result.positioning_strategy.market_position = "Challenger"
  /\ result.positioning_strategy.value_proposition = ""
  /\ result.positioning_strategy.key_differentiators = <<>>

\* the order of the six sub-analyses
SubAnalysisOrder ==
  <<"whitespace_opportunities", "innovation_areas", "pricing_opportunities",
    "niche_opportunities", "positioning_strategy", "competitive_advantages">>

\* C27: while generate_strategy runs, the sub-analyses that have returned
\* are the first ones of the order whitespace, innovation, pricing, niche,
\* positioning, advantages, each evaluated once whether the ones before it
\* failed or not; each has invoked the LLM at most once, so a call makes at
\* most six invocations; and the call returns after the sixth.
C27_StrategyProtocol ==
  (entry \in {"run_market_analysis", "generate_strategy"}) =>
    /\ sub_idx \in 1..7
    /\ DOMAIN strategy = {SubAnalysisOrder[k] : k \in 1..(sub_idx - 1)}
    /\ entry = "generate_strategy" =>
         /\ Len(replies) = sub_idx - 1
         /\ \A k \in 1..Len(replies) : Len(replies[k]) <= 1
         /\ Done => sub_idx = 7 /\ DOMAIN result = {SubAnalysisOrder[k] : k \in 1..6}

\* whitespace failed before its call, the innovation call raised, and the
\* four sub-analyses after them each made their call
C27_Witness ==
  /\ StrategyReturned
  /\ replies[1] = <<>>
  /\ replies[2] = <<LlmRaise>>
  /\ \A k \in 3..6 : Len(replies[k]) = 1 /\ replies[k][1].kind = "text"

\* C28: in a pipeline run a non-empty error stays non-empty, the error is
\* non-empty exactly when a stage call has raised, and the step in which a
\* stage call raises sets the error and leaves the output field of that
\* stage as it was.
C28_ErrorPersistence ==
  [][Pipeline =>
       /\ state.error # "" => state'.error # ""
       /\ state'.error # "" <=> raised' # {}
       /\ raised' # raised =>
            /\ state'.error # ""
            /\ state'[NodeField(pc)] = state[NodeField(pc)]]_vars

\* discovery raised, the three later stages returned, and the error of
\* discovery is in the final state
C28_Witness ==
  /\ Pipeline /\ Done
  /\ raised = {"discover_competitors"}
  /\ state.error = "Error discovering competitors"
  /\ state.competitors = <<>>
  /\ DOMAIN state.feature_matrix # {}
  /\ DOMAIN state.visualizations # {}

\* the runs in which a gap map was built from the competitors and the matrix
\* of the matrix stage: the graph, and the two agent methods called in turn
GapMapRuns ==
  (IF /\ Pipeline
      /\ "features" \in DOMAIN state.feature_matrix
      /\ "feature_gap_map" \in DOMAIN state.visualizations
   THEN {[comps |-> state.competitors, matrix |-> state.feature_matrix,
          gap_map |-> state.visualizations.feature_gap_map]} ELSE {})
  \cup
  (IF entry = "create_feature_gap_map"
   THEN {[comps |-> args.competitors, matrix |-> args.feature_matrix, gap_map |-> result]}
   ELSE {})

\* the competitor lists of the gap-map records of one (category, feature) pair
GapMapLists(r, c, f) ==
  LET rows == r.gap_map.data.features
  IN {rows[i].competitors : i \in {j \in 1..Len(rows) : rows[j].category = c /\ rows[j].name = f}}

\* the gap types a gap map records for one pair
RunGapTypes(r, c, f) ==
  LET gaps == r.gap_map.data.gaps
  IN {gaps[i].type : i \in {j \in 1..Len(gaps) : gaps[j].category = c /\ gaps[j].feature = f}}

EnrichRun == entry = "enrich_with_rag"

\* C30: the list _enrich_with_rag builds follows its input element by
\* element: whatever the similarity query and the LLM did, the i-th element
\* carries the name of the i-th input competitor; the list returned has the
\* length of the input; and the element of a competitor whose enrichment
\* raised is the input record itself.
C30_SequencePreserved ==
  EnrichRun =>
    /\ Len(enriched_competitors) = Len(args)
    /\ Len(enriched_competitors) <= Len(competitors)
    /\ \A i \in 1..Len(enriched_competitors) :
         /\ enriched_competitors[i].name = competitors[i].name
         /\ args[i].kind = "raise" => enriched_competitors[i] = competitors[i]
    /\ Done =>
         /\ Len(result) = Len(competitors)
         /\ \A i \in 1..Len(result) :
              /\ result[i].name = competitors[i].name
              /\ args[i].kind = "raise" => result[i] = competitors[i]

\* the similarity query of the first competitor raised, the second was
\* merged with a similar record
C30_Witness ==
  /\ EnrichRun
  /\ Done
  /\ competitors = <<CompAcme, CompResolved>>
  /\ args[1].kind = "raise"
  /\ result[1] = CompAcme
  /\ args[2].docs = <<Document, SimilarDict>>
  /\ result[2].name = <<"Acme">>
  /\ result[2].sector = "AI"
====
